---------------------------- MODULE Spec2Model ----------------------------
(***************************************************************************)
(* A model of the vesicle simulation back end (cpp_backend): Simulation,   *)
(* Vesicle, Exterior, IonSpecies, IonChannel and HistoriesStorage.         *)
(*                                                                         *)
(* Numbers.  Every C++ double is a pair <<n, d>>: the rational n/d in      *)
(* lowest terms with d > 0, or one of the IEEE-754 special values          *)
(* <<1, 0>> (+inf), <<-1, 0>> (-inf), <<0, 0>> (NaN).  Arithmetic is exact *)
(* on the rationals (no rounding) and follows IEEE-754 on the special      *)
(* values (x/0, inf - inf, 0 * inf, comparisons with NaN).  Zero carries   *)
(* no sign: x/0 has the sign of x.                                         *)
(*                                                                         *)
(* std::log, std::exp, std::log10, std::pow(10, .) and the cube root have  *)
(* no rational values in general; they are evaluated by the rational       *)
(* interpolants Ln, Exp, Log10, Pow10 and Cbrt below, which are exact at   *)
(* the points named there, strictly monotone and mutually inverse.         *)
(*                                                                         *)
(* TLC integers have 32 bits, so the physical constants and the            *)
(* configuration values are carried as small rationals (see the            *)
(* definitions marked "scaled").                                           *)
(***************************************************************************)
EXTENDS Integers, Sequences, FiniteSets, TLC

(***************************************************************************)
(* double                                                                  *)
(***************************************************************************)
AbsInt(i) == IF i < 0 THEN -i ELSE i

SgnInt(i) == IF i < 0 THEN -1 ELSE IF i > 0 THEN 1 ELSE 0

RECURSIVE GCD(_, _)
GCD(a, b) == IF b = 0 THEN a ELSE GCD(b, a % b)

NaN == <<0, 0>>

PInf == <<1, 0>>

NInf == <<-1, 0>>

\* n/d in lowest terms, d # 0
Q(n, d) ==
    LET g == GCD(AbsInt(n), AbsInt(d))
        s == SgnInt(d)
    IN  IF n = 0 THEN <<0, 1>> ELSE <<(s * n) \div g, AbsInt(d) \div g>>

I(k) == <<k, 1>>

Zero == <<0, 1>>

One == <<1, 1>>

IsNaN(x) == x = NaN

IsInf(x) == x[2] = 0 /\ x[1] # 0

IsFinite(x) == x[2] # 0

Sgn(x) == SgnInt(x[1])

Neg(x) == <<-x[1], x[2]>>

Abs(x) == <<AbsInt(x[1]), x[2]>>

Add(x, y) ==
    IF IsNaN(x) \/ IsNaN(y) THEN NaN
    ELSE IF IsInf(x) /\ IsInf(y) THEN (IF x = y THEN x ELSE NaN)
    ELSE IF IsInf(x) THEN x
    ELSE IF IsInf(y) THEN y
    ELSE LET g == GCD(x[2], y[2])
         IN  Q(x[1] * (y[2] \div g) + y[1] * (x[2] \div g), (x[2] \div g) * y[2])

Sub(x, y) == Add(x, Neg(y))

Mul(x, y) ==
    IF IsNaN(x) \/ IsNaN(y) THEN NaN
    ELSE IF IsInf(x) \/ IsInf(y)
         THEN (IF Sgn(x) * Sgn(y) = 0 THEN NaN ELSE <<Sgn(x) * Sgn(y), 0>>)
    ELSE IF x[1] = 0 \/ y[1] = 0 THEN Zero
    ELSE LET g1 == GCD(AbsInt(x[1]), y[2])
             g2 == GCD(AbsInt(y[1]), x[2])
         IN  <<(x[1] \div g1) * (y[1] \div g2), (x[2] \div g2) * (y[2] \div g1)>>

Div(x, y) ==
    IF IsNaN(x) \/ IsNaN(y) THEN NaN
    ELSE IF IsInf(y) THEN (IF IsInf(x) THEN NaN ELSE Zero)
    ELSE IF y[1] = 0 THEN (IF x[1] = 0 THEN NaN ELSE <<Sgn(x), 0>>)
    ELSE IF IsInf(x) THEN <<Sgn(x) * Sgn(y), 0>>
    ELSE Mul(x, <<Sgn(y) * y[2], AbsInt(y[1])>>)

\* x < y, x <= y, x == y as IEEE-754 decides them: false when either is NaN
Lt(x, y) ==
    IF IsNaN(x) \/ IsNaN(y) THEN FALSE
    ELSE IF x = y THEN FALSE
    ELSE IF x = NInf \/ y = PInf THEN TRUE
    ELSE IF x = PInf \/ y = NInf THEN FALSE
    ELSE x[1] * y[2] < y[1] * x[2]

EqNum(x, y) == ~IsNaN(x) /\ ~IsNaN(y) /\ x = y

Le(x, y) == Lt(x, y) \/ EqNum(x, y)

Gt(x, y) == Lt(y, x)

Ge(x, y) == Le(y, x)

\* the C++ truth value of a double: !x is x == 0.0
Truthy(x) == ~EqNum(x, Zero)

\* std::pow(x, k) for an int k: pow(x, 0) is 1 for every x, NaN included
RECURSIVE PowInt(_, _)
PowInt(x, k) ==
    IF k = 0 THEN One
    ELSE IF k < 0 THEN Div(One, PowInt(x, -k))
    ELSE Mul(x, PowInt(x, k - 1))

\* static_cast<int> of a finite non-negative double: truncation
Trunc(x) == x[1] \div x[2]


\* std::log, evaluated by a rational interpolant: exact at 1, odd under
\* x -> 1/x and strictly increasing; log(0) = -inf, log(x < 0) = NaN
Ln(x) ==
    IF IsNaN(x) THEN NaN
    ELSE IF x = PInf THEN PInf
    ELSE IF Lt(x, Zero) THEN NaN
    ELSE IF x[1] = 0 THEN NInf
    ELSE IF Ge(x, One) THEN Sub(x, One)
    ELSE Sub(One, Div(One, x))

\* std::exp, the inverse of Ln: exact at 0, Exp(-x) = 1/Exp(x), positive
Exp(x) ==
    IF IsNaN(x) THEN NaN
    ELSE IF x = PInf THEN PInf
    ELSE IF x = NInf THEN Zero
    ELSE IF Ge(x, Zero) THEN Add(One, x)
    ELSE Div(One, Sub(One, x))

\* std::log10, interpolated linearly inside each decade: exact at the powers
\* of ten and strictly increasing
RECURSIVE Log10Pos(_)
Log10Pos(x) ==
    IF Ge(x, I(10)) THEN Add(One, Log10Pos(Div(x, I(10))))
    ELSE IF Lt(x, One) THEN Sub(Log10Pos(Mul(x, I(10))), One)
    ELSE Div(Sub(x, One), I(9))

Log10(x) ==
    IF IsNaN(x) THEN NaN
    ELSE IF x = PInf THEN PInf
    ELSE IF Lt(x, Zero) THEN NaN
    ELSE IF x[1] = 0 THEN NInf
    ELSE Log10Pos(x)

\* std::pow(10, p), the inverse of Log10
RECURSIVE Pow10Fin(_)
Pow10Fin(p) ==
    IF Ge(p, One) THEN Mul(I(10), Pow10Fin(Sub(p, One)))
    ELSE IF Lt(p, Zero) THEN Div(Pow10Fin(Add(p, One)), I(10))
    ELSE Add(One, Mul(I(9), p))

Pow10(p) ==
    IF IsNaN(p) THEN NaN
    ELSE IF p = PInf THEN PInf
    ELSE IF p = NInf THEN Zero
    ELSE Pow10Fin(p)

\* std::pow(x, 2.0/3.0) of a finite x >= 0, interpolated linearly between
\* the cubes of consecutive integers: exact at m^3 and strictly increasing
RECURSIVE Pow23From(_, _)
Pow23From(x, m) ==
    IF Lt(x, I((m + 1) * (m + 1) * (m + 1)))
    THEN Add(I(m * m),
             Div(Mul(Sub(x, I(m * m * m)), I(2 * m + 1)),
                 I(3 * m * m + 3 * m + 1)))
    ELSE Pow23From(x, m + 1)

\* std::pow(x, 2.0/3.0): NaN for x < 0, as for every non-integer exponent
Pow23(x) ==
    IF IsNaN(x) THEN NaN
    ELSE IF x = PInf THEN PInf
    ELSE IF Lt(x, Zero) THEN NaN
    ELSE Pow23From(x, 0)

(***************************************************************************)
(* Constants of the program.                                               *)
(***************************************************************************)
\* scaled: 8.31446261815324 J/(mol K)
IDEAL_GAS_CONSTANT == <<8, 1>>

\* scaled: 96485.0 C/mol
FARADAY_CONSTANT == <<16, 1>>

\* scaled: 3.14159265358979323846
PI == <<3, 1>>

\* scaled: the unit conversion factor 1000 of setIonAmounts, updateVesicleConcentrations
\* and getUnaccountedIonAmount
LITER_FACTOR == <<8, 1>>

\* scaled: the floor 1e-9 of setVesicleConc
MIN_VESICLE_CONC == <<1, 16>>

\* scaled: the default pH 7.0 of updatePH
DEFAULT_PH == <<4, 1>>

\* 709 / voltageExponent + halfActVoltage with voltageExponent = 80.0 and
\* halfActVoltage = -0.04
MAX_VOLTAGE == Add(Div(I(709), I(80)), Q(-4, 100))

\* scaled: the constructor's temperature_, 2578.5871 / IDEAL_GAS_CONSTANT
DEFAULT_TEMPERATURE == Div(I(2), IDEAL_GAS_CONSTANT)

\* scaled: the constructor's initBufferCapacity_, 5e-4
DEFAULT_BUFFER_CAPACITY == Q(1, 1000)

(***************************************************************************)
(* A shared_ptr to a species or a channel is the name of the object it     *)
(* points to, or Null; the simulation holds its vesicle and its exterior   *)
(* themselves, or NullObject.                                              *)
(***************************************************************************)
Null == "nullptr"

NullObject == [null |-> TRUE]

NoError == "none"

(***************************************************************************)
(* Vesicle                                                                 *)
(***************************************************************************)
\* pow(36 PI, 1/3) * pow(volume, 2/3), written 4 PI (3 volume / (4 PI))^(2/3)
\* (the same real number), which the interpolated cube root evaluates
\* exactly for the sphere of an integer radius
SphereAreaOfVolume(volume) ==
    Mul(Mul(I(4), PI), Pow23(Div(Mul(I(3), volume), Mul(I(4), PI))))

NewVesicle(initRadius, initVoltage, initPH, specificCapacitance, displayName) ==
    LET Members(clampedVoltage, initVolume, initArea, initCapacitance) ==
            [ specificCapacitance |-> specificCapacitance,
              initVoltage |-> clampedVoltage,
              initRadius |-> initRadius,
              initPH |-> initPH,
              displayName |-> displayName,
              initVolume |-> initVolume,
              initArea |-> initArea,
              initCapacitance |-> initCapacitance,
              initCharge |-> Mul(clampedVoltage, initCapacitance),
              pH |-> initPH,
              volume |-> initVolume,
              area |-> initArea,
              capacitance |-> initCapacitance,
              charge |-> Mul(clampedVoltage, initCapacitance),
              voltage |-> clampedVoltage ]
        Sized(maxVoltage, initArea) ==
            Members(IF Gt(initVoltage, maxVoltage) THEN maxVoltage
                    ELSE IF Lt(initVoltage, Neg(maxVoltage)) THEN Neg(maxVoltage)
                    ELSE initVoltage,
                    Mul(Mul(Q(4, 3), PI), PowInt(initRadius, 3)),
                    initArea,
                    Mul(initArea, specificCapacitance))
    IN  Sized(MAX_VOLTAGE, Mul(Mul(I(4), PI), PowInt(initRadius, 2)))

\* updateArea leaving the area of the previous volume
VesicleKeepArea(v) == v

\* Vesicle::updateArea
VesicleUpdateArea(v) == [v EXCEPT !.area = SphereAreaOfVolume(v.volume)]

VesicleUpdateCapacitance(v) ==
    [v EXCEPT !.capacitance = Mul(v.area, v.specificCapacitance)]

VesicleCurrentState(v) ==
    [ pH |-> v.pH, volume |-> v.volume, area |-> v.area,
      capacitance |-> v.capacitance, charge |-> v.charge,
      voltage |-> v.voltage ]

(***************************************************************************)
(* Exterior                                                                *)
(***************************************************************************)
NewExterior(pH, displayName) == [ pH |-> pH, displayName |-> displayName ]

ExteriorCurrentState(e) == [ pH |-> e.pH ]

(***************************************************************************)
(* IonChannel.  computeFlux and the operations under it return the         *)
(* channel as they leave it, the value they return and the exception they  *)
(* throw (NoError when they return).                                       *)
(***************************************************************************)
NewIonChannel(p, displayName) ==
    [ conductance |-> p.conductance,
      channelType |-> p.channelType,
      dependenceType |-> p.dependenceType,
      voltageMultiplier |-> p.voltageMultiplier,
      nernstMultiplier |-> p.nernstMultiplier,
      voltageShift |-> p.voltageShift,
      fluxMultiplier |-> p.fluxMultiplier,
      allowedPrimaryIon |-> p.allowedPrimaryIon,
      allowedSecondaryIon |-> p.allowedSecondaryIon,
      primaryExponent |-> p.primaryExponent,
      secondaryExponent |-> p.secondaryExponent,
      customNernstConstant |-> p.customNernstConstant,
      useFreeHydrogen |-> p.useFreeHydrogen,
      voltageExponent |-> p.voltageExponent,
      halfActVoltage |-> p.halfActVoltage,
      pHExponent |-> p.pHExponent,
      halfActPH |-> p.halfActPH,
      timeExponent |-> p.timeExponent,
      halfActTime |-> p.halfActTime,
      displayName |-> IF displayName = "" THEN "UnnamedChannel" ELSE displayName,
      flux |-> Zero,
      nernstPotential |-> Zero,
      pHDependence |-> One,
      voltageDependence |-> One,
      timeDependence |-> One,
      primarySpecies |-> Null,
      secondarySpecies |-> Null ]

\* IonChannel::connectSpecies
ConnectSpecies(ch, primarySpecies, secondarySpecies) ==
    IF primarySpecies = Null
    THEN [ch |-> ch, err |-> "primary_null"]
    ELSE IF ch.allowedSecondaryIon # "" /\ secondarySpecies = Null
    THEN [ch |-> ch, err |-> "secondary_required"]
    ELSE [ch |-> [ch EXCEPT !.primarySpecies = primarySpecies,
                            !.secondarySpecies = secondarySpecies],
          err |-> NoError]

Logistic(exponent, value, halfAct) ==
    Div(One, Add(One, Exp(Mul(exponent, Sub(value, halfAct)))))

ComputePHDependence(ch, pH) ==
    IF ~Truthy(ch.pHExponent) \/ ~Truthy(ch.halfActPH)
    THEN [ch |-> ch, value |-> One]
    ELSE LET Store(logisticTerm) ==
                 [ch |-> [ch EXCEPT !.pHDependence = logisticTerm],
                  value |-> logisticTerm]
         IN  Store(Logistic(ch.pHExponent, pH, ch.halfActPH))

ComputeVoltageDependence(ch, voltage) ==
    IF ~Truthy(ch.voltageExponent) \/ ~Truthy(ch.halfActVoltage)
    THEN [ch |-> ch, value |-> One]
    ELSE LET effectiveVoltage ==
                 Sub(Mul(voltage, ch.voltageMultiplier), ch.voltageShift)
             Store(logisticTerm) ==
                 [ch |-> [ch EXCEPT !.voltageDependence = logisticTerm],
                  value |-> logisticTerm]
         IN  Store(Logistic(ch.voltageExponent, effectiveVoltage,
                            ch.halfActVoltage))

ComputeTimeDependence(ch, time) ==
    IF ~Truthy(ch.timeExponent) \/ ~Truthy(ch.halfActTime)
    THEN [ch |-> ch, value |-> One]
    ELSE LET Store(logisticTerm) ==
                 [ch |-> [ch EXCEPT !.timeDependence = logisticTerm],
                  value |-> logisticTerm]
         IN  Store(Logistic(ch.timeExponent, time, ch.halfActTime))

\* IonChannel::computeLogTerm; species maps the names of the species to them
ComputeLogTerm(ch, species, params) ==
    IF ch.primarySpecies = Null
    THEN [err |-> "primary_not_connected", value |-> Zero]
    ELSE IF species[ch.primarySpecies].displayName # ch.allowedPrimaryIon
    THEN [err |-> "primary_mismatch", value |-> Zero]
    ELSE IF ch.allowedSecondaryIon # "" /\ ch.secondarySpecies = Null
    THEN [err |-> "secondary_not_connected", value |-> Zero]
    ELSE IF /\ ch.secondarySpecies # Null
            /\ species[ch.secondarySpecies].displayName # ch.allowedSecondaryIon
    THEN [err |-> "secondary_mismatch", value |-> Zero]
    ELSE
    LET prim == species[ch.primarySpecies]
        primFree == ch.useFreeHydrogen /\ prim.displayName = "h"
        vesicleConc ==
            IF primFree THEN params.vesicleHydrogenFree ELSE prim.vesicleConc
        exteriorConc ==
            IF primFree THEN params.exteriorHydrogenFree ELSE prim.exteriorConc
        LogOf(ratio) ==
            IF Le(ratio, Zero)
            THEN [err |-> NoError, value |-> Zero]
            ELSE [err |-> NoError, value |-> Ln(ratio)]
    IN  IF ch.secondarySpecies # Null
        THEN LET sec == species[ch.secondarySpecies]
                 secFree == ch.useFreeHydrogen /\ sec.displayName = "h"
                 secondaryVesicleConc ==
                     IF secFree THEN params.vesicleHydrogenFree
                     ELSE sec.vesicleConc
                 secondaryExteriorConc ==
                     IF secFree THEN params.exteriorHydrogenFree
                     ELSE sec.exteriorConc
                 primaryTerm ==
                     PowInt(Div(exteriorConc, vesicleConc), ch.primaryExponent)
                 secondaryTerm ==
                     PowInt(Div(secondaryVesicleConc, secondaryExteriorConc),
                            ch.secondaryExponent)
             IN  LogOf(Mul(primaryTerm, secondaryTerm))
        ELSE IF Le(exteriorConc, Zero) \/ Le(vesicleConc, Zero)
             THEN [err |-> NoError, value |-> Zero]
             ELSE [err |-> NoError,
                   value |-> Ln(PowInt(Div(exteriorConc, vesicleConc),
                                       ch.primaryExponent))]

\* IonChannel::computeNernstPotential
ComputeNernstPotential(ch, species, params) ==
    LET nernstConstant ==
            IF ~EqNum(ch.customNernstConstant, Zero)
            THEN ch.customNernstConstant
            ELSE params.nernstConstant
        Store(potential) ==
            [ch |-> [ch EXCEPT !.nernstPotential = potential],
             err |-> NoError, value |-> potential]
        Potential(logTerm) ==
            IF logTerm.err # NoError
            THEN [ch |-> ch, err |-> logTerm.err, value |-> Zero]
            ELSE Store(Sub(Add(Mul(ch.voltageMultiplier, params.voltage),
                               Mul(Mul(ch.nernstMultiplier, nernstConstant),
                                   logTerm.value)),
                           ch.voltageShift))
    IN  Potential(ComputeLogTerm(ch, species, params))

\* the gating factors computeFlux evaluates for the channel's dependence type
GatingOf(ch, params) ==
    LET Gated(v, ph, t) ==
            [ch |-> t.ch, voltageDependence |-> v.value,
             pHDependence |-> ph.value, timeDependence |-> t.value]
        WithTime(v, ph) ==
            Gated(v, ph,
                  IF ch.dependenceType = "time"
                  THEN ComputeTimeDependence(ph.ch, params.time)
                  ELSE [ch |-> ph.ch, value |-> One])
        WithPH(v) ==
            WithTime(v,
                     IF ch.dependenceType \in {"pH", "voltage_and_pH"}
                     THEN ComputePHDependence(v.ch, params.pH)
                     ELSE [ch |-> v.ch, value |-> One])
    IN  WithPH(IF ch.dependenceType \in {"voltage", "voltage_and_pH"}
               THEN ComputeVoltageDependence(ch, params.voltage)
               ELSE [ch |-> ch, value |-> One])

ComputeFluxAlways(ch, species, params) ==
    LET Store(np, flux) ==
            [ch |-> [np.ch EXCEPT !.flux = flux], err |-> NoError,
             value |-> flux]
        Flux(g, np) ==
            IF np.err # NoError
            THEN [ch |-> np.ch, err |-> np.err, value |-> Zero]
            ELSE Store(np,
                       Mul(Mul(Mul(Mul(ch.fluxMultiplier, np.value),
                                   ch.conductance),
                               params.area),
                           Mul(Mul(g.pHDependence, g.voltageDependence),
                               g.timeDependence)))
        Gated(g) == Flux(g, ComputeNernstPotential(g.ch, species, params))
    IN  Gated(GatingOf(ch, params))

\* computeFlux without its early return for a conductance of 0
ComputeFluxNoSkip(ch, species, params) == ComputeFluxAlways(ch, species, params)

\* IonChannel::computeFlux
ComputeFlux(ch, species, params) ==
    IF EqNum(ch.conductance, Zero)
    THEN [ch |-> ch, err |-> NoError, value |-> Zero]
    ELSE ComputeFluxAlways(ch, species, params)

ChannelCurrentState(ch) ==
    [ flux |-> ch.flux, nernst_potential |-> ch.nernstPotential,
      pH_dependence |-> ch.pHDependence,
      voltage_dependence |-> ch.voltageDependence,
      time_dependence |-> ch.timeDependence ]

(***************************************************************************)
(* IonSpecies.  concSet and amountSet are history variables: whether       *)
(* setVesicleConc and setVesicleAmount have written the field.             *)
(***************************************************************************)
NewIonSpecies(displayName, initVesicleConc, exteriorConc, elementaryCharge) ==
    [ displayName |-> IF displayName = "" THEN "UnnamedSpecies" ELSE displayName,
      initVesicleConc |-> initVesicleConc,
      exteriorConc |-> exteriorConc,
      elementaryCharge |-> elementaryCharge,
      vesicleConc |-> initVesicleConc,
      vesicleAmount |-> Zero,
      channels |-> <<>>,
      concSet |-> FALSE,
      amountSet |-> FALSE ]

SetVesicleAmount(sp, value) ==
    [sp EXCEPT !.vesicleAmount = IF Lt(value, Zero) THEN Zero ELSE value,
               !.amountSet = TRUE]

SetVesicleConc(sp, value) ==
    [sp EXCEPT !.vesicleConc = IF Le(value, Zero) THEN MIN_VESICLE_CONC ELSE value,
               !.concSet = TRUE]

SpeciesCurrentState(sp) ==
    [ vesicle_conc |-> sp.vesicleConc, vesicle_amount |-> sp.vesicleAmount ]

\* validateChannelCompatibility with the single-ion rule for every channel
ValidatePrimaryOnly(ch, primaryName, secondaryName) ==
    primaryName = ch.allowedPrimaryIon

\* IonSpecies::validateChannelCompatibility, on the display names
ValidateChannelCompatibility(ch, primaryName, secondaryName) ==
    IF ch.allowedSecondaryIon # ""
    THEN IF secondaryName = Null
         THEN FALSE
         ELSE LET validOrder1 == /\ primaryName = ch.allowedPrimaryIon
                                 /\ secondaryName = ch.allowedSecondaryIon
                  validOrder2 == /\ primaryName = ch.allowedSecondaryIon
                                 /\ secondaryName = ch.allowedPrimaryIon
              IN  validOrder1 \/ validOrder2
    ELSE primaryName = ch.allowedPrimaryIon

\* IonSpecies::connectChannel of species[self] with channels[channel];
\* secondary is the name of a species or Null
ConnectChannel(species, channels, self, channel, secondary) ==
    LET ch == channels[channel]
        secondaryName ==
            IF secondary = Null THEN Null ELSE species[secondary].displayName
        c == ConnectSpecies(ch, self, secondary)
    IN  IF ~ValidateChannelCompatibility(ch, species[self].displayName,
                                         secondaryName)
        THEN [ species |-> species, channels |-> channels,
               err |-> IF secondary # Null THEN "incompatible_species"
                       ELSE "unsupported_species" ]
        ELSE IF c.err # NoError
        THEN [ species |-> species, channels |-> channels, err |-> c.err ]
        ELSE [ species |-> [species EXCEPT ![self].channels = Append(@, channel)],
               channels |-> [channels EXCEPT ![channel] = c.ch],
               err |-> NoError ]

\* the loop of IonSpecies::computeTotalFlux from the i-th connected channel on
RECURSIVE TotalFluxFrom(_, _, _, _, _, _)
TotalFluxFrom(connected, i, totalFlux, species, channels, params) ==
    IF i > Len(connected)
    THEN [ channels |-> channels, err |-> NoError, value |-> totalFlux ]
    ELSE LET Accumulate(r, after) ==
                 IF r.err # NoError
                 THEN [ channels |-> after, err |-> r.err, value |-> Zero ]
                 ELSE TotalFluxFrom(connected, i + 1, Add(totalFlux, r.value),
                                    species, after, params)
             Computed(r) ==
                 Accumulate(r, [channels EXCEPT ![connected[i]] = r.ch])
         IN  Computed(ComputeFlux(channels[connected[i]], species, params))

\* IonSpecies::computeTotalFlux of species[self]
ComputeTotalFlux(species, channels, self, params) ==
    TotalFluxFrom(species[self].channels, 1, Zero, species, channels, params)

(***************************************************************************)
(* HistoriesStorage: objects_ maps a display name to the kind of the       *)
(* registered object, histories_ maps a key to its series.                 *)
(***************************************************************************)
NewHistoriesStorage == [ objects |-> <<>>, series |-> <<>> ]

HistoryKey(objName, fieldName) == objName \o "_" \o fieldName

\* f with f[k] = v
Put(f, k, v) == [x \in DOMAIN f \cup {k} |-> IF x = k THEN v ELSE f[x]]

\* registerObject without its check for a name already registered
RegisterObjectUnchecked(h, objName, kind, state) ==
    [ h |-> [ objects |-> Put(h.objects, objName, kind),
              series |->
                  [k \in DOMAIN h.series
                         \cup {HistoryKey(objName, f) : f \in DOMAIN state}
                   |-> IF \E f \in DOMAIN state : k = HistoryKey(objName, f)
                       THEN <<>>
                       ELSE h.series[k]] ],
      err |-> NoError ]

\* HistoriesStorage::registerObject of an object of the given kind whose
\* getCurrentState is state
RegisterObject(h, objName, kind, state) ==
    IF objName \in DOMAIN h.objects
    THEN [ h |-> h,
           err |-> IF h.objects[objName] = kind THEN "duplicate_object"
                   ELSE "name_conflict" ]
    ELSE [ h |-> [ objects |-> Put(h.objects, objName, kind),
                   series |->
                       [k \in DOMAIN h.series
                              \cup {HistoryKey(objName, f) : f \in DOMAIN state}
                        |-> IF \E f \in DOMAIN state : k = HistoryKey(objName, f)
                            THEN <<>>
                            ELSE h.series[k]] ],
           err |-> NoError ]

RECURSIVE SeqOfSet(_)
SeqOfSet(S) ==
    IF S = {} THEN <<>>
    ELSE LET x == CHOOSE y \in S : TRUE IN <<x>> \o SeqOfSet(S \ {x})

\* updateHistories passing over the registered Exterior objects
UpdateHistoriesButExterior(h, states) ==
    LET pairs == UNION {{o} \X DOMAIN states[o] :
                           o \in {x \in DOMAIN h.objects :
                                      h.objects[x] # "Exterior"}}
        keys == {HistoryKey(p[1], p[2]) : p \in pairs}
        pushed(k) ==
            LET ps == SeqOfSet({p \in pairs : HistoryKey(p[1], p[2]) = k})
            IN  [i \in 1..Len(ps) |-> states[ps[i][1]][ps[i][2]]]
    IN  [h EXCEPT !.series =
            [k \in DOMAIN h.series \cup keys |->
                (IF k \in DOMAIN h.series THEN h.series[k] ELSE <<>>)
                \o (IF k \in keys THEN pushed(k) ELSE <<>>)]]

\* HistoriesStorage::updateHistories; states maps the name of every
\* registered object to its getCurrentState
UpdateHistories(h, states) ==
    LET pairs == UNION {{o} \X DOMAIN states[o] : o \in DOMAIN h.objects}
        keys == {HistoryKey(p[1], p[2]) : p \in pairs}
        pushed(k) ==
            LET ps == SeqOfSet({p \in pairs : HistoryKey(p[1], p[2]) = k})
            IN  [i \in 1..Len(ps) |-> states[ps[i][1]][ps[i][2]]]
    IN  [h EXCEPT !.series =
            [k \in DOMAIN h.series \cup keys |->
                (IF k \in DOMAIN h.series THEN h.series[k] ELSE <<>>)
                \o (IF k \in keys THEN pushed(k) ELSE <<>>)]]

\* HistoriesStorage::addHistory
AddHistory(h, name, value) ==
    [h EXCEPT !.series =
        Put(h.series, name,
            Append(IF name \in DOMAIN h.series THEN h.series[name] ELSE <<>>,
                   value))]

\* flushHistories dropping the registrations and the series as reset does
FlushHistoriesAndObjects(h) == [ objects |-> <<>>, series |-> <<>> ]

\* HistoriesStorage::flushHistories
FlushHistories(h) == [h EXCEPT !.series = [k \in DOMAIN h.series |-> <<>>]]

\* HistoriesStorage::reset
ResetHistories(h) == NewHistoriesStorage

(***************************************************************************)
(* Simulation.  species and channels are the unordered maps species_ and   *)
(* channels_; speciesOrder and channelOrder are the orders in which the    *)
(* program's range-for loops visit them.  lastVolume is a history          *)
(* variable: what the last updateVolume saw and did.                       *)
(***************************************************************************)
NewSimulation ==
    [ timeStep |-> Q(1, 1000),
      totalTime |-> I(100),
      time |-> Zero,
      temperature |-> DEFAULT_TEMPERATURE,
      initBufferCapacity |-> DEFAULT_BUFFER_CAPACITY,
      bufferCapacity |-> DEFAULT_BUFFER_CAPACITY,
      displayName |-> "simulation",
      unaccountedIonAmount |-> Zero,
      vesicle |-> NullObject,
      exterior |-> NullObject,
      species |-> <<>>,
      speciesOrder |-> <<>>,
      channels |-> <<>>,
      channelOrder |-> <<>>,
      ionChannelLinks |-> <<>>,
      histories |-> NewHistoriesStorage,
      lastVolume |-> [ran |-> FALSE] ]

RECURSIVE SumSeq(_)
SumSeq(xs) == IF xs = <<>> THEN Zero ELSE Add(Head(xs), SumSeq(Tail(xs)))

\* the terms f[n] of the species in the order a loop over species_ adds them
InOrder(s, f) == [i \in 1..Len(s.speciesOrder) |-> f[s.speciesOrder[i]]]

\* Simulation::getFluxCalculationParameters
GetFluxCalculationParameters(s) ==
    LET vesicleHPlusTotalConc == Pow10(Neg(s.vesicle.pH))
        exteriorHPlusTotalConc == Pow10(Neg(s.exterior.pH))
    IN  [ voltage |-> s.vesicle.voltage,
          pH |-> s.vesicle.pH,
          time |-> s.time,
          area |-> s.vesicle.area,
          nernstConstant |->
              Div(Mul(IDEAL_GAS_CONSTANT, s.temperature), FARADAY_CONSTANT),
          vesicleHydrogenFree |->
              Div(vesicleHPlusTotalConc,
                  Add(One, Div(s.bufferCapacity, vesicleHPlusTotalConc))),
          exteriorHydrogenFree |-> exteriorHPlusTotalConc ]

\* Simulation::setIonAmounts
SetIonAmounts(s) ==
    [s EXCEPT !.species =
        [n \in DOMAIN s.species |->
            SetVesicleAmount(s.species[n],
                Mul(Mul(s.species[n].vesicleConc, LITER_FACTOR), s.vesicle.volume))]]

\* the index of a species in a fixed order of the names
FluxIndexByName(s, n) ==
    LET fixed == CHOOSE f \in [1..Cardinality(DOMAIN s.species) -> DOMAIN s.species] :
                     \A i, j \in DOMAIN f : f[i] = f[j] => i = j
    IN  CHOOSE j \in DOMAIN fixed : fixed[j] = n

\* the index i of updateIonAmounts when its loop over species_ visits n
FluxIndex(s, n) == CHOOSE j \in 1..Len(s.speciesOrder) : s.speciesOrder[j] = n

\* updateIonAmounts giving every species the first flux of the vector
UpdateIonAmountsFirstFlux(s, fluxes) ==
    IF Len(fluxes) # Len(s.speciesOrder)
    THEN s
    ELSE [s EXCEPT !.species =
            [n \in DOMAIN s.species |->
                LET newAmount == Add(s.species[n].vesicleAmount,
                                     Mul(fluxes[1], s.timeStep))
                IN  SetVesicleAmount(s.species[n],
                        IF Lt(newAmount, Zero) THEN Zero ELSE newAmount)]]

\* Simulation::updateIonAmounts: fluxes[i] goes to the i-th species visited
UpdateIonAmounts(s, fluxes) ==
    IF Len(fluxes) # Len(s.speciesOrder)
    THEN s
    ELSE [s EXCEPT !.species =
            [n \in DOMAIN s.species |->
                LET i == FluxIndex(s, n)
                    newAmount == Add(s.species[n].vesicleAmount,
                                     Mul(fluxes[i], s.timeStep))
                IN  SetVesicleAmount(s.species[n],
                        IF Lt(newAmount, Zero) THEN Zero ELSE newAmount)]]

\* Simulation::updateVesicleConcentrations
UpdateVesicleConcentrations(s) ==
    [s EXCEPT !.species =
        [n \in DOMAIN s.species |->
            SetVesicleConc(s.species[n],
                Div(s.species[n].vesicleAmount,
                    Mul(LITER_FACTOR, s.vesicle.volume)))]]

\* getUnaccountedIonAmount taken from the current charge, concentrations and
\* volume instead of the initial ones
GetUnaccountedIonAmountNow(s) ==
    LET chargeInMoles == Div(s.vesicle.charge, FARADAY_CONSTANT)
        totalIonicChargeConcentration ==
            SumSeq(InOrder(s, [n \in DOMAIN s.species |->
                Mul(s.species[n].elementaryCharge, s.species[n].vesicleConc)]))
        ionicChargeInMoles ==
            Mul(Mul(totalIonicChargeConcentration, LITER_FACTOR),
                s.vesicle.volume)
    IN  Sub(chargeInMoles, ionicChargeInMoles)

\* Simulation::getUnaccountedIonAmount
GetUnaccountedIonAmount(s) ==
    LET initChargeInMoles == Div(s.vesicle.initCharge, FARADAY_CONSTANT)
        totalIonicChargeConcentration ==
            SumSeq(InOrder(s, [n \in DOMAIN s.species |->
                Mul(s.species[n].elementaryCharge, s.species[n].initVesicleConc)]))
        ionicChargeInMoles ==
            Mul(Mul(totalIonicChargeConcentration, LITER_FACTOR),
                s.vesicle.initVolume)
    IN  Sub(initChargeInMoles, ionicChargeInMoles)

\* updateVolume applying the ratio whatever the initial sum
VolumeRatioAlways(sumInitConc) == TRUE

\* the guard of updateVolume on the sum of the initial concentrations
VolumeRatioDefined(sumInitConc) == Gt(sumInitConc, Zero)

\* Simulation::updateVolume
UpdateVolume(s) ==
    IF s.vesicle = NullObject THEN s ELSE
    LET nonH == [n \in DOMAIN s.species |-> n # "h"]
        sumCurrentConc ==
            Add(SumSeq(InOrder(s, [n \in DOMAIN s.species |->
                    IF nonH[n] THEN s.species[n].vesicleConc ELSE Zero])),
                Abs(s.unaccountedIonAmount))
        sumInitConc ==
            Add(SumSeq(InOrder(s, [n \in DOMAIN s.species |->
                    IF nonH[n] THEN s.species[n].initVesicleConc ELSE Zero])),
                Abs(s.unaccountedIonAmount))
        newVolume ==
            IF DOMAIN s.species # {} /\ VolumeRatioDefined(sumInitConc)
            THEN Mul(s.vesicle.initVolume, Div(sumCurrentConc, sumInitConc))
            ELSE s.vesicle.volume
    IN  [s EXCEPT !.vesicle.volume = newVolume,
                  !.lastVolume =
                      [ ran |-> TRUE,
                        concsAtInit |->
                            \A n \in DOMAIN s.species :
                                nonH[n] => s.species[n].vesicleConc
                                           = s.species[n].initVesicleConc,
                        unaccountedIonAmount |-> s.unaccountedIonAmount,
                        nonHydrogen |-> {n \in DOMAIN s.species : nonH[n]},
                        volume |-> newVolume ]]

\* Simulation::updateArea
UpdateArea(s) == [s EXCEPT !.vesicle = VesicleUpdateArea(@)]

\* Simulation::updateCapacitance
UpdateCapacitance(s) == [s EXCEPT !.vesicle = VesicleUpdateCapacitance(@)]

\* Simulation::updateBuffer
UpdateBuffer(s) ==
    [s EXCEPT !.bufferCapacity =
        Div(Mul(s.initBufferCapacity, s.vesicle.volume), s.vesicle.initVolume)]

\* Simulation::updateCharge
UpdateCharge(s) ==
    IF EqNum(s.time, Zero)
    THEN [s EXCEPT !.vesicle.charge = s.vesicle.initCharge]
    ELSE LET totalIonicCharge ==
                 Add(SumSeq(InOrder(s, [n \in DOMAIN s.species |->
                         Mul(s.species[n].vesicleAmount,
                             s.species[n].elementaryCharge)])),
                     s.unaccountedIonAmount)
         IN  [s EXCEPT !.vesicle.charge = Mul(totalIonicCharge, FARADAY_CONSTANT)]

\* Simulation::updateVoltage
UpdateVoltage(s) ==
    IF EqNum(s.time, Zero)
    THEN [s EXCEPT !.vesicle.voltage = s.vesicle.initVoltage]
    ELSE [s EXCEPT !.vesicle.voltage = Div(s.vesicle.charge, s.vesicle.capacitance)]

\* Simulation::updatePH
UpdatePH(s) ==
    IF EqNum(s.time, Zero)
    THEN [s EXCEPT !.vesicle.pH = s.vesicle.initPH]
    ELSE IF "h" \in DOMAIN s.species
    THEN LET freeHConc == Mul(s.species["h"].vesicleConc, s.bufferCapacity)
         IN  IF Le(freeHConc, Zero)
             THEN [s EXCEPT !.vesicle.pH = DEFAULT_PH]
             ELSE [s EXCEPT !.vesicle.pH = Neg(Log10(freeHConc))]
    ELSE s

\* updateVolume .. updateCapacitance, the part of updateSimulationState that
\* runOneIteration and run also call on its own
UpdatePhysicalProperties(s) ==
    UpdateCapacitance(UpdateArea(UpdateBuffer(
        UpdateVesicleConcentrations(UpdateVolume(s)))))

\* Simulation::updateSimulationState
UpdateSimulationState(s) ==
    UpdatePH(UpdateVoltage(UpdateCharge(UpdatePhysicalProperties(s))))

\* the getCurrentState of every object the simulation registers, by name
ObjectStates(s) ==
    [o \in DOMAIN s.histories.objects |->
            LET kind == s.histories.objects[o]
            IN  IF kind = "Vesicle" THEN VesicleCurrentState(s.vesicle)
                ELSE IF kind = "Exterior" THEN ExteriorCurrentState(s.exterior)
                ELSE IF kind = "IonSpecies"
                THEN SpeciesCurrentState(
                         s.species[CHOOSE n \in DOMAIN s.species :
                                       s.species[n].displayName = o])
                ELSE ChannelCurrentState(
                         s.channels[CHOOSE c \in DOMAIN s.channels :
                                        s.channels[c].displayName = o])]

\* histories_->updateHistories() on the simulation's objects
RecordHistories(s) ==
    [s EXCEPT !.histories = UpdateHistories(s.histories, ObjectStates(s))]

(***************************************************************************)
(* Simulation::loadFromJson, in the order of its statements.  c is the     *)
(* parsed configuration: hasX tells whether the key X is present.  Every   *)
(* part returns the simulation as it leaves it and the exception it        *)
(* throws.                                                                 *)
(***************************************************************************)
\* a check that lets 0 through
NegativeOnly(x) == Lt(x, Zero)

\* the check "<= 0" of time_step, total_time and temperature
NotPositive(x) == Le(x, Zero)

\* the required parameters, time_step .. init_buffer_capacity
LoadParameters(s, c) ==
    LET s1 == [s EXCEPT !.timeStep = c.timeStep]
        s2 == [s1 EXCEPT !.totalTime = c.totalTime]
        s3 == IF c.hasTemperature THEN [s2 EXCEPT !.temperature = c.temperature]
              ELSE s2
        s4 == IF c.hasInitBufferCapacity
              THEN [s3 EXCEPT !.initBufferCapacity = c.initBufferCapacity]
              ELSE s3
    IN  IF ~c.hasTimeStep \/ ~c.hasTotalTime
        THEN [sim |-> s, err |-> "missing_required_parameter"]
        ELSE IF NotPositive(s1.timeStep)
        THEN [sim |-> s1, err |-> "time_step_not_positive"]
        ELSE IF NotPositive(s2.totalTime)
        THEN [sim |-> s2, err |-> "total_time_not_positive"]
        ELSE IF c.hasTemperature /\ NotPositive(s3.temperature)
        THEN [sim |-> s3, err |-> "temperature_not_positive"]
        ELSE IF c.hasInitBufferCapacity /\ Lt(s4.initBufferCapacity, Zero)
        THEN [sim |-> s4, err |-> "init_buffer_capacity_negative"]
        ELSE [sim |-> [s4 EXCEPT !.bufferCapacity = s4.initBufferCapacity],
              err |-> NoError]

\* the vesicle, the exterior, the species and the channels
LoadEntities(s, c, speciesOrder, channelOrder) ==
    [s EXCEPT
        !.vesicle = NewVesicle(c.vesicle.initRadius, c.vesicle.initVoltage,
                               c.vesicle.initPH, c.vesicle.specificCapacitance,
                               c.vesicle.displayName),
        !.exterior = NewExterior(c.exteriorPH, "Exterior"),
        !.species = [n \in DOMAIN c.species |->
                        NewIonSpecies(n, c.species[n].initVesicleConc,
                                      c.species[n].exteriorConc,
                                      c.species[n].elementaryCharge)],
        !.speciesOrder = speciesOrder,
        !.channels = [n \in DOMAIN c.channels |-> NewIonChannel(c.channels[n], n)],
        !.channelOrder = channelOrder]

\* one link <<speciesName, channelName, secondarySpeciesName>> of
\* ion_channel_links; the secondary name is "" when the link has none
LoadLink(s, link) ==
    LET speciesName == link[1]
        channelName == link[2]
        secondarySpeciesName == link[3]
        s1 == [s EXCEPT !.ionChannelLinks = Append(@, link)]
        Connected(r) ==
            [sim |-> [s1 EXCEPT !.species = r.species, !.channels = r.channels],
             err |-> r.err, called |-> TRUE]
        connect(secondary) ==
            Connected(ConnectChannel(s1.species, s1.channels, speciesName,
                                     channelName, secondary))
        skip == [sim |-> s1, err |-> NoError, called |-> FALSE]
    IN  IF speciesName \in DOMAIN s1.species /\ channelName \in DOMAIN s1.channels
        THEN IF secondarySpeciesName # ""
             THEN IF secondarySpeciesName \in DOMAIN s1.species
                  THEN connect(secondarySpeciesName)
                  ELSE skip
             ELSE connect(Null)
        ELSE skip

\* registerObject for the objects from the i-th on, until one throws
RECURSIVE RegisterFrom(_, _, _)
RegisterFrom(h, objs, i) ==
    IF i > Len(objs)
    THEN [h |-> h, err |-> NoError]
    ELSE LET Registered(r) ==
                 IF r.err # NoError THEN r ELSE RegisterFrom(r.h, objs, i + 1)
         IN  Registered(RegisterObject(h, objs[i].name, objs[i].kind,
                                       objs[i].state))

\* the registrations: the vesicle, the exterior, the species, the channels
LoadRegister(s) ==
    LET objs ==
            << [name |-> s.vesicle.displayName, kind |-> "Vesicle",
                state |-> VesicleCurrentState(s.vesicle)],
               [name |-> s.exterior.displayName, kind |-> "Exterior",
                state |-> ExteriorCurrentState(s.exterior)] >>
            \o [i \in 1..Len(s.speciesOrder) |->
                   [name |-> s.species[s.speciesOrder[i]].displayName,
                    kind |-> "IonSpecies",
                    state |-> SpeciesCurrentState(s.species[s.speciesOrder[i]])]]
            \o [i \in 1..Len(s.channelOrder) |->
                   [name |-> s.channels[s.channelOrder[i]].displayName,
                    kind |-> "IonChannel",
                    state |-> ChannelCurrentState(s.channels[s.channelOrder[i]])]]
        Registered(r) == [sim |-> [s EXCEPT !.histories = r.h], err |-> r.err]
    IN  Registered(RegisterFrom(s.histories, objs, 1))

\* setIonAmounts, the unaccounted ion amount, updateSimulationState and the
\* initial snapshot
LoadInitialize(s) ==
    LET Unaccounted(s1) ==
            [s1 EXCEPT !.unaccountedIonAmount = GetUnaccountedIonAmount(s1)]
    IN  RecordHistories(UpdateSimulationState(Unaccounted(SetIonAmounts(s))))

(***************************************************************************)
(* Simulation::runOneIteration and Simulation::run                         *)
(***************************************************************************)
\* the loop "fluxes.push_back(species->computeTotalFlux(params))" from the
\* i-th species on
RECURSIVE FluxesFrom(_, _, _, _)
FluxesFrom(s, params, i, fluxes) ==
    IF i > Len(s.speciesOrder)
    THEN [sim |-> s, err |-> NoError, fluxes |-> fluxes]
    ELSE LET Pushed(r, s1) ==
                 IF r.err # NoError
                 THEN [sim |-> s1, err |-> r.err, fluxes |-> fluxes]
                 ELSE FluxesFrom(s1, params, i + 1, Append(fluxes, r.value))
             Computed(r) == Pushed(r, [s EXCEPT !.channels = r.channels])
         IN  Computed(ComputeTotalFlux(s.species, s.channels, s.speciesOrder[i],
                                       params))

ComputeFluxes(s) == FluxesFrom(s, GetFluxCalculationParameters(s), 1, <<>>)

\* the physical properties updated, the electrical ones kept
UpdateKeepingElectrical(s) ==
    [UpdatePhysicalProperties(s) EXCEPT
        !.vesicle.charge = s.vesicle.charge,
        !.vesicle.voltage = s.vesicle.voltage,
        !.vesicle.pH = s.vesicle.pH]

\* the time advance taking the elapsed step off the total time
AdvanceTimeSpendingTotal(s) ==
    [s EXCEPT !.time = Add(s.time, s.timeStep),
              !.totalTime = Sub(s.totalTime, s.timeStep)]

AdvanceTime(s) == [s EXCEPT !.time = Add(s.time, s.timeStep)]

\* Simulation::runOneIteration
RunOneIteration(s) ==
    LET Updated(s1) ==
            IF EqNum(s1.time, Zero) THEN UpdateKeepingElectrical(s1)
            ELSE UpdateSimulationState(s1)
        Computed(f) ==
            IF f.err # NoError
            THEN [sim |-> f.sim, err |-> f.err]
            ELSE [sim |-> AdvanceTime(RecordHistories(
                              Updated(UpdateIonAmounts(f.sim, f.fluxes)))),
                  err |-> NoError]
    IN  Computed(ComputeFluxes(
            IF EqNum(s.time, Zero) /\ EqNum(s.unaccountedIonAmount, Zero)
            THEN [s EXCEPT !.unaccountedIonAmount = GetUnaccountedIonAmount(s)]
            ELSE s))

\* runOneIteration called n times in a row, stopping at the first failure
RECURSIVE RunOneIterationTimes(_, _)
RunOneIterationTimes(s, n) ==
    IF n = 0
    THEN [sim |-> s, err |-> NoError]
    ELSE LET Again(r) ==
                 IF r.err # NoError THEN r
                 ELSE RunOneIterationTimes(r.sim, n - 1)
         IN  Again(RunOneIteration(s))

\* setIonAmounts and the unaccounted ion amount, as run's first two steps
PrepareRun(s) ==
    LET Unaccounted(s1) ==
            [s1 EXCEPT !.unaccountedIonAmount = GetUnaccountedIonAmount(s1)]
    IN  Unaccounted(SetIonAmounts(s))

\* static_cast<int>(totalTime_ / timeStep_)
IterNum(s) == Trunc(Div(s.totalTime, s.timeStep))

\* run, up to its loop
RunStart(s) ==
    LET Stamped(s2) ==
            [s2 EXCEPT !.histories = AddHistory(@, "simulation_time", s2.time)]
        Unaccounted(s1) ==
            Stamped([s1 EXCEPT
                        !.unaccountedIonAmount = GetUnaccountedIonAmount(s1)])
    IN  Unaccounted(SetIonAmounts(s))

\* one pass of the loop of run
RunIteration(s, iterNum, iter) ==
    LET Updated(s2) ==
            IF iterNum = 1 /\ iter = 0 THEN UpdateKeepingElectrical(s2)
            ELSE UpdateSimulationState(s2)
        Recorded(f) ==
            RecordHistories(
                [f.sim EXCEPT !.histories =
                    AddHistory(@, "simulation_time", f.sim.time)])
        Computed(f) ==
            IF f.err # NoError
            THEN [sim |-> f.sim, err |-> f.err]
            ELSE [sim |-> AdvanceTime(Updated(
                              UpdateIonAmounts(Recorded(f), f.fluxes))),
                  err |-> NoError]
    IN  Computed(ComputeFluxes(UpdateSimulationState(s)))

\* run, after its loop
RunFinish(s, iterNum) ==
    LET Stamped(s2) ==
            [s2 EXCEPT !.histories = AddHistory(@, "simulation_time", s2.time)]
        Restored(s1) ==
            Stamped(IF iterNum = 1
                    THEN [s1 EXCEPT !.vesicle.charge = s1.vesicle.initCharge,
                                    !.vesicle.voltage = s1.vesicle.initVoltage,
                                    !.vesicle.pH = s1.vesicle.initPH]
                    ELSE s1)
    IN  Restored(RecordHistories(UpdateSimulationState(s)))

\* the series getHistoriesJson counts the points of: the first one of the
\* JSON object toJson returns, whose keys are ordered as strings.  With the
\* exterior registered that is "Exterior_pH", since every other object's
\* name starts with a later letter.
FirstSeries(result) ==
    IF DOMAIN result = {} THEN <<>> ELSE result["Exterior_pH"]

\* Simulation::getHistoriesJson
GetHistoriesJson(s) ==
    LET TimePoints(numPoints) ==
            [i \in 1..numPoints |-> Mul(I(i - 1), s.timeStep)]
        Exported(result, timePoints) ==
            [k \in DOMAIN result \cup {"simulation_time"} |->
                IF k = "simulation_time" THEN timePoints ELSE result[k]]
    IN  Exported(s.histories.series,
                 TimePoints(Len(FirstSeries(s.histories.series))))

(***************************************************************************)
(* The configurations.  Every number is small; the families below vary     *)
(* one part of a configuration at a time around BaseConfig.                *)
(***************************************************************************)
\* the most iterations of a run with a conducting channel, and the number
\* of iterations of the run without flux
MaxIter == 2
LongRun == 10
\* the most calls of runOneIteration in a row
MaxSteps == 2

DefaultChannelParams ==
    [ conductance |-> Zero, channelType |-> "", dependenceType |-> "",
      voltageMultiplier |-> One, nernstMultiplier |-> One,
      voltageShift |-> Zero, fluxMultiplier |-> One,
      allowedPrimaryIon |-> "", allowedSecondaryIon |-> "",
      primaryExponent |-> 1, secondaryExponent |-> 1,
      customNernstConstant |-> Zero, useFreeHydrogen |-> FALSE,
      voltageExponent |-> Zero, halfActVoltage |-> Zero,
      pHExponent |-> Zero, halfActPH |-> Zero,
      timeExponent |-> Zero, halfActTime |-> Zero ]

ChannelParams(primary, secondary, conductance, dependenceType) ==
    [DefaultChannelParams EXCEPT
        !.allowedPrimaryIon = primary, !.allowedSecondaryIon = secondary,
        !.conductance = conductance, !.dependenceType = dependenceType,
        !.voltageShift = IF conductance = Zero THEN Zero ELSE I(-1),
        !.voltageExponent = IF dependenceType = "voltage" THEN One ELSE Zero,
        !.halfActVoltage = IF dependenceType = "voltage" THEN One ELSE Zero]

SpeciesParams(initVesicleConc, exteriorConc, elementaryCharge) ==
    [ initVesicleConc |-> initVesicleConc, exteriorConc |-> exteriorConc,
      elementaryCharge |-> elementaryCharge ]

VesicleParams(initRadius, initVoltage, initPH) ==
    [ initRadius |-> initRadius, initVoltage |-> initVoltage,
      initPH |-> initPH, specificCapacitance |-> Q(1, 12),
      displayName |-> "Vesicle" ]

\* one hydrogen species and one voltage-gated channel of conductance 0
BaseConfig ==
    [ hasTimeStep |-> TRUE, timeStep |-> One,
      hasTotalTime |-> TRUE, totalTime |-> I(MaxIter),
      hasTemperature |-> FALSE, temperature |-> Zero,
      hasInitBufferCapacity |-> TRUE, initBufferCapacity |-> Q(1, 100),
      vesicle |-> VesicleParams(One, Q(1, 8), I(3)),
      exteriorPH |-> I(7),
      species |-> ("h" :> SpeciesParams(Q(1, 10), Q(1, 10), One)),
      channels |-> ("hv" :> ChannelParams("h", "", Zero, "voltage")),
      links |-> << <<"h", "hv", "">> >> ]

\* how a parameter appears in a configuration
Given(value) == [has |-> TRUE, value |-> value]
Absent == [has |-> FALSE, value |-> Zero]

\* the required parameters: absent, out of range, at the edge, in range
ParameterConfigs ==
    { [BaseConfig EXCEPT
          !.hasTimeStep = ts.has, !.timeStep = ts.value,
          !.hasTotalTime = tt.has, !.totalTime = tt.value,
          !.hasTemperature = te.has, !.temperature = te.value,
          !.hasInitBufferCapacity = bc.has, !.initBufferCapacity = bc.value] :
        ts \in {Absent, Given(Zero), Given(I(-1)), Given(One)},
        tt \in {Absent, Given(Zero), Given(I(MaxIter))},
        te \in {Absent, Given(Zero), Given(One)},
        bc \in {Absent, Given(Q(-1, 100)), Given(Zero), Given(Q(1, 100))} }

\* chloride and hydrogen with no net charge, a chloride channel and a
\* chloride/hydrogen exchanger
TwoSpecies ==
    "cl" :> SpeciesParams(One, One, I(-1))
    @@ "h" :> SpeciesParams(One, One, One)

TwoChannels(asorConductance, clcConductance) ==
    "asor" :> ChannelParams("cl", "", asorConductance, "")
    @@ "clc" :> ChannelParams("cl", "h", clcConductance, "")

\* the links a configuration can list, well-formed or not
CandidateLinks ==
    { <<"cl", "asor", "">>, <<"cl", "clc", "h">>, <<"cl", "clc", "">>,
      <<"cl", "ghost", "">>, <<"cl", "clc", "na">>, <<"cl", "asor", "h">>,
      <<"h", "asor", "">>, <<"h", "clc", "cl">>, <<"na", "asor", "">> }

\* ion_channel_links is a JSON object: its keys come in increasing order
KeyRank(name) == IF name = "cl" THEN 1 ELSE IF name = "h" THEN 2 ELSE 3

MaxLinks == 2

LinkLists ==
    { links \in UNION {[1..n -> CandidateLinks] : n \in 0..MaxLinks} :
        \A i \in 1..(Len(links) - 1) :
            KeyRank(links[i][1]) <= KeyRank(links[i + 1][1]) }

WiringConfigs ==
    { [BaseConfig EXCEPT
          !.totalTime = I(tt),
          !.vesicle = VesicleParams(One, Zero, I(2)),
          !.species = TwoSpecies,
          !.channels = TwoChannels(g[1], g[2]),
          !.links = links] :
        tt \in 1..MaxIter,
        g \in {<<Zero, Zero>>, <<Q(1, 12), Zero>>, <<Zero, Q(1, 12)>>},
        links \in LinkLists }

\* the vesicle and the species varied, every conductance 0: a radius of 0,
\* a concentration of 0,
\* species without charge, with and without hydrogen
PhysicalConfigs ==
    { [BaseConfig EXCEPT
          !.totalTime = I(tt),
          !.vesicle = VesicleParams(r, v, I(3)),
          !.species = sp,
          !.channels = "asor" :> ChannelParams("cl", "", Zero, ""),
          !.links = IF "cl" \in DOMAIN sp THEN << <<"cl", "asor", "">> >>
                    ELSE <<>>] :
        tt \in 1..MaxIter,
        r \in {Zero, One, I(2)},
        v \in {Zero, Q(1, 8)},
        sp \in { "cl" :> SpeciesParams(c, One, z) : c \in {Zero, One},
                                                    z \in {Zero, I(-1)} }
               \cup { "h" :> SpeciesParams(Q(1, 10), Q(1, 10), z) : z \in {Zero, One} }
               \cup { "cl" :> SpeciesParams(One, One, I(-1))
                      @@ "h" :> SpeciesParams(c, c, One) : c \in {Zero, Q(1, 10)} } }

\* the run without flux: one hydrogen species, one voltage-gated channel of
\* conductance 0, LongRun iterations
LongRunConfigs ==
    { [BaseConfig EXCEPT
          !.totalTime = I(LongRun),
          !.vesicle = VesicleParams(One, Q(1, 8), pH)] : pH \in {I(3), I(4)} }

\* initial voltages beyond the clamp of the vesicle
ClampConfigs ==
    { [BaseConfig EXCEPT !.vesicle = VesicleParams(One, v, I(3))] :
        v \in {I(10), I(-10)} }

\* a channel under the name of a species
\* a two-ion channel, correctly linked, whose secondary species has an
\* exterior concentration of 0 or below
DepletedConfigs ==
    { [BaseConfig EXCEPT
          !.totalTime = One,
          !.species = "cl" :> SpeciesParams(One, One, I(-1))
                      @@ "h" :> SpeciesParams(One, e, One),
          !.channels = TwoChannels(Zero, g),
          !.links = << <<"cl", "clc", "h">> >>] :
        e \in {Zero, I(-1), I(2)}, g \in {Zero, One} }

NameClashConfigs ==
    { [BaseConfig EXCEPT
          !.channels = "h" :> ChannelParams("h", "", Zero, "voltage"),
          !.links = << <<"h", "h", "">> >>] }

Configs ==
    ParameterConfigs \cup WiringConfigs \cup PhysicalConfigs
    \cup LongRunConfigs \cup ClampConfigs \cup NameClashConfigs
    \cup DepletedConfigs

(***************************************************************************)
(* The state machine.  sim is the Simulation under study and twin a second *)
(* instance given the same configuration and the same calls, whose         *)
(* unordered maps iterate the other way round.  pc is the position of the  *)
(* caller, err the exception the last call raised, last what the last      *)
(* call was given and what it returned.  storage is a HistoriesStorage     *)
(* that a caller constructs and drives on its own.                         *)
(***************************************************************************)
VARIABLES cfg, pc, sim, twin, err, linkIdx, iter, iterNum, last, storage

vars == <<cfg, pc, sim, twin, err, linkIdx, iter, iterNum, last, storage>>

Perms(S) ==
    {f \in [1..Cardinality(S) -> S] : \A i, j \in DOMAIN f : f[i] = f[j] => i = j}

Reverse(xs) == [i \in 1..Len(xs) |-> xs[Len(xs) + 1 - i]]

NoCall == [op |-> "none"]

Init ==
    /\ cfg \in Configs
    /\ pc = "unconfigured"
    /\ sim = NewSimulation
    /\ twin = NewSimulation
    /\ err = NoError
    /\ linkIdx = 1
    /\ iter = 0
    /\ iterNum = 0
    /\ last = NoCall
    /\ storage = NewHistoriesStorage

\* loadFromJson: the parameters
LoadFromJsonParameters ==
    /\ pc = "unconfigured"
    /\ \E r \in {LoadParameters(sim, cfg)} :
           /\ sim' = r.sim
           /\ twin' = LoadParameters(twin, cfg).sim
           /\ err' = r.err
           /\ pc' = IF r.err = NoError THEN "load_entities" ELSE "load_failed"
    /\ last' = NoCall
    /\ UNCHANGED <<cfg, storage, linkIdx, iter, iterNum>>

\* loadFromJson: the entities, in one of the orders the maps can hold them
LoadFromJsonEntities ==
    /\ pc = "load_entities"
    /\ \E speciesOrder \in Perms(DOMAIN cfg.species) :
       \E channelOrder \in Perms(DOMAIN cfg.channels) :
           /\ sim' = LoadEntities(sim, cfg, speciesOrder, channelOrder)
           /\ twin' = LoadEntities(twin, cfg, Reverse(speciesOrder),
                                   Reverse(channelOrder))
    /\ pc' = "load_links"
    /\ linkIdx' = 1
    /\ last' = NoCall
    /\ UNCHANGED <<cfg, storage, err, iter, iterNum>>

\* loadFromJson: the next link of ion_channel_links
LoadFromJsonLink ==
    /\ pc = "load_links"
    /\ linkIdx <= Len(cfg.links)
    /\ \E link \in {cfg.links[linkIdx]} : \E r \in {LoadLink(sim, link)} :
           /\ sim' = r.sim
           /\ twin' = LoadLink(twin, link).sim
           /\ err' = r.err
           /\ pc' = IF r.err = NoError THEN "load_links" ELSE "load_failed"
           /\ last' = IF r.called
                      THEN [ op |-> "connectChannel",
                             self |-> link[1],
                             channel |-> link[2],
                             secondary |-> IF link[3] = "" THEN Null ELSE link[3],
                             channelBefore |-> sim.channels[link[2]],
                             channelAfter |-> r.sim.channels[link[2]],
                             channelsBefore |-> sim.species[link[1]].channels,
                             channelsAfter |-> r.sim.species[link[1]].channels,
                             err |-> r.err ]
                      ELSE [ op |-> "linkSkipped", link |-> link ]
    /\ linkIdx' = linkIdx + 1
    /\ UNCHANGED <<cfg, storage, iter, iterNum>>

\* loadFromJson: the registrations
LoadFromJsonRegister ==
    /\ pc = "load_links"
    /\ linkIdx > Len(cfg.links)
    /\ \E r \in {LoadRegister(sim)} :
           /\ sim' = r.sim
           /\ twin' = LoadRegister(twin).sim
           /\ err' = r.err
           /\ pc' = IF r.err = NoError THEN "load_initialize" ELSE "load_failed"
    /\ last' = NoCall
    /\ UNCHANGED <<cfg, storage, linkIdx, iter, iterNum>>

\* loadFromJson: the initial state and the initial snapshot
LoadFromJsonInitialize ==
    /\ pc = "load_initialize"
    /\ sim' = LoadInitialize(sim)
    /\ twin' = LoadInitialize(twin)
    /\ pc' = "configured"
    /\ last' = NoCall
    /\ UNCHANGED <<cfg, storage, err, linkIdx, iter, iterNum>>

\* static_cast<int>(100.0 * (iter + 1) / iterNum)
ProgressPercent(i, n) == Trunc(Div(Mul(I(100), I(i + 1)), I(n)))

\* run, up to its loop; the caller passes a progress callback or none.
\* last keeps the simulation run was called on, whether a callback was
\* passed and the values the callback has been called with.
Run ==
    /\ pc = "configured"
    /\ sim' = RunStart(sim)
    /\ twin' = RunStart(twin)
    /\ iterNum' = IterNum(sim)
    /\ iter' = 0
    /\ pc' = "running"
    /\ \E progressCallback \in BOOLEAN :
           last' = [ op |-> "run", from |-> sim,
                     progressCallback |-> progressCallback,
                     reported |-> <<>> ]
    /\ UNCHANGED <<cfg, storage, err, linkIdx>>

\* run: one pass of its loop
RunLoop ==
    /\ pc = "running"
    /\ iter < iterNum
    /\ \E r \in {RunIteration(sim, iterNum, iter)} :
           /\ sim' = r.sim
           /\ twin' = RunIteration(twin, iterNum, iter).sim
           /\ err' = r.err
           /\ pc' = IF r.err = NoError THEN "running" ELSE "run_failed"
           /\ last' = IF r.err = NoError /\ last.progressCallback /\ iterNum > 0
                      THEN [last EXCEPT !.reported =
                                Append(@, ProgressPercent(iter, iterNum))]
                      ELSE last
    /\ iter' = iter + 1
    /\ UNCHANGED <<cfg, storage, linkIdx, iterNum>>

\* run, after its loop
RunEnd ==
    /\ pc = "running"
    /\ iter >= iterNum
    /\ sim' = RunFinish(sim, iterNum)
    /\ twin' = RunFinish(twin, iterNum)
    /\ pc' = "completed"
    /\ UNCHANGED <<cfg, storage, err, linkIdx, iter, iterNum, last>>

\* runOneIteration, called on a configured simulation
Step ==
    /\ pc \in {"configured", "stepping"}
    /\ iter < MaxSteps
    /\ \E r \in {RunOneIteration(sim)} :
           /\ sim' = r.sim
           /\ twin' = RunOneIteration(twin).sim
           /\ err' = r.err
           /\ pc' = IF r.err = NoError THEN "stepping" ELSE "step_failed"
    /\ iter' = iter + 1
    /\ last' = NoCall
    /\ UNCHANGED <<cfg, storage, linkIdx, iterNum>>

\* the values a caller can hand to a setter
ProbeValues == {NInf, I(-1), Zero, Q(1, 2), PInf, NaN}

\* the snapshots a caller can hand to computeFlux: the simulation's own and
\* one with every quantity away from its default
ProbeSnapshots(s) ==
    { GetFluxCalculationParameters(s),
      [ voltage |-> I(2), pH |-> I(5), time |-> I(3), area |-> I(12),
        nernstConstant |-> Q(1, 32), vesicleHydrogenFree |-> Q(1, 100),
        exteriorHydrogenFree |-> Q(1, 10) ] }

\* IonChannel::computeFlux, called on a channel of a configured simulation
CallComputeFlux ==
    /\ pc = "configured"
    /\ \E c \in DOMAIN sim.channels : \E params \in ProbeSnapshots(sim) :
        \E r \in {ComputeFlux(sim.channels[c], sim.species, params)} :
            /\ sim' = [sim EXCEPT !.channels[c] = r.ch]
            /\ twin' = [twin EXCEPT !.channels[c] =
                            ComputeFlux(@, twin.species, params).ch]
            /\ err' = r.err
            /\ last' = [ op |-> "computeFlux", channel |-> c,
                         before |-> sim.channels[c], after |-> r.ch,
                         value |-> r.value, err |-> r.err,
                         params |-> params,
                         logTerm |->
                             IF EqNum(sim.channels[c].conductance, Zero)
                             THEN [called |-> FALSE]
                             ELSE [called |-> TRUE] @@
                                  ComputeLogTerm(sim.channels[c], sim.species,
                                                 params) ]
    /\ pc' = "probed"
    /\ UNCHANGED <<cfg, storage, linkIdx, iter, iterNum>>

\* IonSpecies::computeTotalFlux, called on a species of a configured
\* simulation
CallComputeTotalFlux ==
    /\ pc = "configured"
    /\ \E n \in DOMAIN sim.species : \E params \in ProbeSnapshots(sim) :
        \E r \in {ComputeTotalFlux(sim.species, sim.channels, n, params)} :
            /\ sim' = [sim EXCEPT !.channels = r.channels]
            /\ twin' = [twin EXCEPT !.channels =
                            ComputeTotalFlux(twin.species, @, n, params).channels]
            /\ err' = r.err
            /\ last' = [ op |-> "computeTotalFlux", species |-> n,
                         params |-> params, before |-> sim,
                         value |-> r.value, err |-> r.err ]
    /\ pc' = "probed"
    /\ UNCHANGED <<cfg, storage, linkIdx, iter, iterNum>>

\* IonSpecies::setVesicleConc, called on a species of a configured simulation
CallSetVesicleConc ==
    /\ pc = "configured"
    /\ \E n \in DOMAIN sim.species : \E value \in ProbeValues :
        /\ sim' = [sim EXCEPT !.species[n] = SetVesicleConc(@, value)]
        /\ twin' = [twin EXCEPT !.species[n] = SetVesicleConc(@, value)]
        /\ last' = [op |-> "setVesicleConc", species |-> n, value |-> value]
    /\ pc' = "probed"
    /\ UNCHANGED <<cfg, storage, err, linkIdx, iter, iterNum>>

\* IonSpecies::setVesicleAmount, called on a species of a configured
\* simulation
CallSetVesicleAmount ==
    /\ pc = "configured"
    /\ \E n \in DOMAIN sim.species : \E value \in ProbeValues :
        /\ sim' = [sim EXCEPT !.species[n] = SetVesicleAmount(@, value)]
        /\ twin' = [twin EXCEPT !.species[n] = SetVesicleAmount(@, value)]
        /\ last' = [op |-> "setVesicleAmount", species |-> n, value |-> value]
    /\ pc' = "probed"
    /\ UNCHANGED <<cfg, storage, err, linkIdx, iter, iterNum>>

\* getHistoriesJson, called after run has returned as main does; last
\* keeps the export
CallGetHistoriesJson ==
    /\ pc = "completed"
    /\ last' = [ op |-> "getHistoriesJson", result |-> GetHistoriesJson(sim) ]
    /\ pc' = "exported"
    /\ UNCHANGED <<cfg, storage, sim, twin, err, linkIdx, iter, iterNum>>

\* the most calls a caller makes on its own HistoriesStorage
MaxStorageCalls == 4

\* the objects a caller registers with its own storage: an Exterior or an
\* IonSpecies, under one of two display names
ProbeNames == {"a", "b"}

ProbeKinds == {"Exterior", "IonSpecies"}

ProbeState(name, kind) ==
    IF kind = "Exterior"
    THEN ExteriorCurrentState(NewExterior(I(7), name))
    ELSE SpeciesCurrentState(NewIonSpecies(name, One, One, One))

ProbeStates(h) == [o \in DOMAIN h.objects |-> ProbeState(o, h.objects[o])]

\* what the caller of the storage has done so far: calls counts its calls,
\* steps the updateHistories since the last flushHistories or reset, and
\* orderly tells that it has only registered and then only recorded
StorageCalls == IF pc = "storage" THEN last.calls ELSE 0

StorageSteps == IF pc = "storage" THEN last.steps ELSE 0

StorageOrderly == IF pc = "storage" THEN last.orderly ELSE TRUE

\* a call op on the storage that leaves it as r.h and throws r.err
StorageCall(op, name, kind, r, steps, orderly) ==
    /\ pc \in {"unconfigured", "storage"}
    /\ cfg = BaseConfig
    /\ StorageCalls < MaxStorageCalls
    /\ storage' = r.h
    /\ err' = r.err
    /\ last' = [ op |-> op, name |-> name, kind |-> kind, err |-> r.err,
                 before |-> storage, prev |-> last.op,
                 calls |-> StorageCalls + 1, steps |-> steps,
                 orderly |-> orderly ]
    /\ pc' = "storage"
    /\ UNCHANGED <<cfg, sim, twin, linkIdx, iter, iterNum>>

\* HistoriesStorage::registerObject
StorageRegisterObject ==
    \E name \in ProbeNames : \E kind \in ProbeKinds :
        StorageCall("registerObject", name, kind,
                    RegisterObject(storage, name, kind, ProbeState(name, kind)),
                    StorageSteps, StorageOrderly /\ StorageSteps = 0)

\* HistoriesStorage::updateHistories
StorageUpdateHistories ==
    StorageCall("updateHistories", "", "",
                [h |-> UpdateHistories(storage, ProbeStates(storage)),
                 err |-> NoError],
                StorageSteps + 1, StorageOrderly)

\* HistoriesStorage::addHistory
StorageAddHistory ==
    StorageCall("addHistory", "simulation_time", "",
                [h |-> AddHistory(storage, "simulation_time", Zero),
                 err |-> NoError],
                StorageSteps, FALSE)

\* HistoriesStorage::flushHistories
StorageFlushHistories ==
    StorageCall("flushHistories", "", "",
                [h |-> FlushHistories(storage), err |-> NoError], 0, FALSE)

\* HistoriesStorage::reset
StorageReset ==
    StorageCall("reset", "", "",
                [h |-> ResetHistories(storage), err |-> NoError], 0, FALSE)

Next ==
    \/ LoadFromJsonParameters
    \/ LoadFromJsonEntities
    \/ LoadFromJsonLink
    \/ LoadFromJsonRegister
    \/ LoadFromJsonInitialize
    \/ Run
    \/ RunLoop
    \/ RunEnd
    \/ Step
    \/ CallComputeFlux
    \/ CallSetVesicleConc
    \/ CallSetVesicleAmount
    \/ CallComputeTotalFlux
    \/ CallGetHistoriesJson
    \/ StorageRegisterObject
    \/ StorageUpdateHistories
    \/ StorageAddHistory
    \/ StorageFlushHistories
    \/ StorageReset

Spec == Init /\ [][Next]_vars

(***************************************************************************)
(* The properties.                                                         *)
(***************************************************************************)
\* the positions of a caller whose loadFromJson has returned
Loaded ==
    {"configured", "running", "completed", "run_failed", "stepping",
     "step_failed", "probed"}

AllConductancesZero ==
    \A c \in DOMAIN cfg.channels : EqNum(cfg.channels[c].conductance, Zero)

C2_SettersClamp ==
    last.op \notin {"setVesicleConc", "setVesicleAmount"}
    => \A n \in DOMAIN sim.species :
        /\ sim.species[n].concSet => Gt(sim.species[n].vesicleConc, Zero)
        /\ sim.species[n].amountSet => Ge(sim.species[n].vesicleAmount, Zero)

\* C3: after loadFromJson and run, every series of an object's field has
\* iterNum + 1 entries.
C3_HistoryLength ==
    pc = "completed"
    => \A k \in DOMAIN sim.histories.series \ {"simulation_time"} :
        Len(sim.histories.series[k]) = iterNum + 1

\* C4: with every conductance 0 and a vesicle of positive radius, from the
\* configured simulation to the end of run every species holds its initial
\* amount, initial concentration x 1000 x initial volume, and the charge of
\* the vesicle is (sum of charge x amount + unaccounted amount) x F.
C4_ChargeConservation ==
    (/\ pc \in {"configured", "running", "completed"}
     /\ AllConductancesZero
     /\ Gt(cfg.vesicle.initRadius, Zero))
    => /\ \A n \in DOMAIN sim.species :
            sim.species[n].vesicleAmount
            = Mul(Mul(sim.species[n].initVesicleConc, LITER_FACTOR),
                  sim.vesicle.initVolume)
       /\ sim.vesicle.charge
          = Mul(Add(SumSeq(InOrder(sim, [n \in DOMAIN sim.species |->
                        Mul(sim.species[n].elementaryCharge,
                            sim.species[n].vesicleAmount)])),
                    sim.unaccountedIonAmount),
                FARADAY_CONSTANT)

\* C5: in the run of LongRun iterations with one hydrogen species and one
\* voltage-gated channel of conductance 0, the pH series has LongRun entries
\* (or LongRun + 1, counting the initial snapshot), each the configured
\* initial pH, and every entry of the channel's flux series is 0.
C5_NoFluxScenario ==
    (pc = "completed" /\ cfg \in LongRunConfigs)
    => /\ Len(sim.histories.series["Vesicle_pH"]) \in {LongRun, LongRun + 1}
       /\ \A i \in DOMAIN sim.histories.series["Vesicle_pH"] :
            sim.histories.series["Vesicle_pH"][i] = cfg.vesicle.initPH
       /\ \A i \in DOMAIN sim.histories.series["hv_flux"] :
            sim.histories.series["hv_flux"][i] = Zero

\* C6: when updateVolume has run in a state where every species other than
\* hydrogen had its initial concentration and the unaccounted ion amount
\* was 0, the volume it left is the initial volume, also when there is no
\* species other than hydrogen.
C6_VolumeInvariant ==
    (/\ sim.lastVolume.ran
     /\ sim.lastVolume.concsAtInit
     /\ EqNum(sim.lastVolume.unaccountedIonAmount, Zero))
    => sim.lastVolume.volume = sim.vesicle.initVolume

\* updateVolume has applied the ratio to a vesicle with a species other than
\* hydrogen at its initial, positive concentration
C6_Witness ==
    /\ sim.lastVolume.ran
    /\ sim.lastVolume.concsAtInit
    /\ EqNum(sim.lastVolume.unaccountedIonAmount, Zero)
    /\ \E n \in sim.lastVolume.nonHydrogen :
        Gt(sim.species[n].initVesicleConc, Zero)
    /\ Gt(sim.vesicle.initVolume, Zero)

\* C7: two simulations loaded from the same configuration and given the same
\* calls hold the same history series, whatever the order in which each
\* visits its species and its channels.
C7_Determinism ==
    pc \in Loaded => sim.histories.series = twin.histories.series

\* a run has completed in two simulations that visit their species in
\* different orders, with a flux that is not 0 recorded
C7_Witness ==
    /\ pc = "completed"
    /\ sim.speciesOrder # twin.speciesOrder
    /\ \E c \in DOMAIN sim.channels :
        \E i \in DOMAIN sim.histories.series[HistoryKey(c, "flux")] :
            sim.histories.series[HistoryKey(c, "flux")][i] # Zero

\* C8: connectChannel of a channel with an allowed secondary ion, called
\* without a secondary species, fails with the compatibility error and
\* leaves the channel and the species' list of channels as they were.
C8_TwoIonNeedsSecondary ==
    (/\ last.op = "connectChannel"
     /\ last.channelBefore.allowedSecondaryIon # ""
     /\ last.secondary = Null)
    => /\ last.err = "unsupported_species"
       /\ last.channelAfter = last.channelBefore
       /\ last.channelsAfter = last.channelsBefore

\* loadFromJson has called connectChannel on a two-ion channel without a
\* secondary species, and has failed
C8_Witness ==
    /\ last.op = "connectChannel"
    /\ last.channelBefore.allowedSecondaryIon # ""
    /\ last.secondary = Null
    /\ pc = "load_failed"

\* a link that names an undefined species or channel, a link to a two-ion
\* channel without a defined secondary species, a link of a species to a
\* single-ion channel for another ion
WiringError(c, link) ==
    \/ link[1] \notin DOMAIN c.species
    \/ link[2] \notin DOMAIN c.channels
    \/ /\ link[2] \in DOMAIN c.channels
       /\ \/ /\ c.channels[link[2]].allowedSecondaryIon # ""
             /\ link[3] \notin DOMAIN c.species
          \/ /\ c.channels[link[2]].allowedSecondaryIon = ""
             /\ c.channels[link[2]].allowedPrimaryIon # link[1]

\* C9: loadFromJson does not return for a configuration with a wiring error
\* in ion_channel_links.
C9_WiringErrorsFatal ==
    pc \in Loaded
    => \A i \in DOMAIN cfg.links : ~WiringError(cfg, cfg.links[i])

\* time_step or total_time missing or <= 0, temperature <= 0,
\* init_buffer_capacity < 0
BadParameters ==
    \/ ~cfg.hasTimeStep
    \/ Le(cfg.timeStep, Zero)
    \/ ~cfg.hasTotalTime
    \/ Le(cfg.totalTime, Zero)
    \/ cfg.hasTemperature /\ Le(cfg.temperature, Zero)
    \/ cfg.hasInitBufferCapacity /\ Lt(cfg.initBufferCapacity, Zero)

\* C10: for a configuration with time_step or total_time missing or <= 0,
\* temperature <= 0 or init_buffer_capacity < 0, loadFromJson fails, and it
\* fails with no vesicle, exterior, species or channel constructed and
\* nothing registered or recorded in the history storage.
C10_ParametersCheckedFirst ==
    BadParameters
    => /\ pc \in {"unconfigured", "load_failed"}
       /\ pc = "load_failed"
          => /\ err \in {"missing_required_parameter", "time_step_not_positive",
                         "total_time_not_positive", "temperature_not_positive",
                         "init_buffer_capacity_negative"}
             /\ sim.vesicle = NullObject
             /\ sim.exterior = NullObject
             /\ DOMAIN sim.species = {}
             /\ DOMAIN sim.channels = {}
             /\ sim.histories = NewHistoriesStorage

\* loadFromJson has failed on the last of its checks, a negative
\* init_buffer_capacity
C10_Witness ==
    /\ pc = "load_failed"
    /\ err = "init_buffer_capacity_negative"
    /\ sim.vesicle = NullObject

\* C11: registerObject under a name already registered throws "duplicate"
\* when the registered object is of the same kind and "name conflict" when
\* it is of another kind, and leaves the objects and the series as they
\* were; under a new name it registers the object and creates one empty
\* series per field of its state, under the key name_field, leaving every
\* other object and series as it was.
C11_RegisterObject ==
    last.op = "registerObject"
    => LET b == last.before
           fields == DOMAIN ProbeState(last.name, last.kind)
           keys == {HistoryKey(last.name, f) : f \in fields}
       IN  IF last.name \in DOMAIN b.objects
           THEN /\ last.err = IF b.objects[last.name] = last.kind
                              THEN "duplicate_object" ELSE "name_conflict"
                /\ storage = b
           ELSE /\ last.err = NoError
                /\ DOMAIN storage.objects = DOMAIN b.objects \cup {last.name}
                /\ storage.objects[last.name] = last.kind
                /\ \A o \in DOMAIN b.objects : storage.objects[o] = b.objects[o]
                /\ DOMAIN storage.series = DOMAIN b.series \cup keys
                /\ keys \cap DOMAIN b.series = {}
                /\ Cardinality(keys) = Cardinality(fields)
                /\ \A k \in keys : storage.series[k] = <<>>
                /\ \A k \in DOMAIN b.series : storage.series[k] = b.series[k]

\* a registration refused for a name conflict after a step was recorded,
\* and one refused as a duplicate
C11_Witness ==
    /\ last.op = "registerObject"
    /\ last.err \in {"name_conflict", "duplicate_object"}
    /\ last.steps > 0
    /\ \E k \in DOMAIN storage.series : Len(storage.series[k]) > 0

\* the names and fields of the objects registered with a storage, given
\* their states, as the keys of their series
ObjectKeys(h, states) ==
    UNION {{HistoryKey(o, f) : f \in DOMAIN states[o]} : o \in DOMAIN h.objects}

\* C12: after registrations followed by updateHistories calls only, every
\* field of every registered object has a series with one entry per
\* updateHistories call and all series of the storage have that length; in
\* a simulation that loadFromJson has configured, whether run, stepped or
\* failed afterwards, every field of every registered object has a series
\* and all series, "simulation_time" included, have the same length.
C12_SeriesEqualLength ==
    /\ (pc = "storage" /\ last.orderly)
       => /\ ObjectKeys(storage, ProbeStates(storage)) = DOMAIN storage.series
          /\ \A k \in DOMAIN storage.series :
                Len(storage.series[k]) = last.steps
    /\ pc \in Loaded
       => /\ ObjectKeys(sim.histories, ObjectStates(sim))
                \subseteq DOMAIN sim.histories.series
          /\ \A k1, k2 \in DOMAIN sim.histories.series :
                Len(sim.histories.series[k1]) = Len(sim.histories.series[k2])

\* a completed run of more than one iteration, whose series include
\* "simulation_time"
C12_Witness ==
    /\ pc = "completed"
    /\ "simulation_time" \in DOMAIN sim.histories.series
    /\ Cardinality(DOMAIN sim.histories.series) > 8
    /\ Len(sim.histories.series["simulation_time"]) > 3

\* what flushHistories and reset themselves do: flushHistories empties
\* every series and keeps the registered objects and the keys; reset leaves
\* no object and no series, an updateHistories right after it appends
\* nothing, and a registration right after it succeeds
FlushAndResetEffects ==
    /\ last.op = "flushHistories"
       => /\ storage.objects = last.before.objects
          /\ DOMAIN storage.series = DOMAIN last.before.series
          /\ \A k \in DOMAIN storage.series : storage.series[k] = <<>>
    /\ last.op = "reset"
       => storage.objects = <<>> /\ storage.series = <<>>
    /\ (last.op = "updateHistories" /\ last.prev = "reset")
       => storage = last.before /\ storage.series = <<>>
    /\ (last.op = "registerObject" /\ last.prev = "reset")
       => last.err = NoError /\ last.name \in DOMAIN storage.objects

ObjectSeries(s) ==
    [k \in ObjectKeys(s.histories, ObjectStates(s)) |-> s.histories.series[k]]

\* C14: a completed run leaves the vesicle, the species, the time and the
\* recorded series of the objects as setIonAmounts, the unaccounted ion
\* amount and then floor(totalTime/timeStep) calls of runOneIteration on
\* the configured simulation leave them.
C14_RunIsIterations ==
    pc = "completed" =>
        LET Same(r) ==
                /\ r.err = NoError
                /\ r.sim.vesicle = sim.vesicle
                /\ r.sim.species = sim.species
                /\ r.sim.time = sim.time
                /\ ObjectSeries(r.sim) = ObjectSeries(sim)
        IN  Same(RunOneIterationTimes(PrepareRun(last.from), iterNum))

\* the last entry of every series of a registered object is what the
\* object holds now: recording once more would repeat it
LastEntryIsCurrent(s) ==
    LET Repeats(h) ==
            \A k \in ObjectKeys(s.histories, ObjectStates(s)) :
                /\ Len(h.series[k]) >= 2
                /\ h.series[k][Len(h.series[k])] = h.series[k][Len(h.series[k]) - 1]
    IN  Repeats(RecordHistories(s).histories)

\* C15: in every iteration of run and of runOneIteration the history entry
\* is appended after the amount update and the recompute of that iteration
\* and before the time advance, so after an iteration the last entry of
\* every series of a registered object holds the object's current value.
C15_EntryRecordsUpdatedState ==
    (pc = "stepping" \/ (pc = "running" /\ iter > 0)) => LastEntryIsCurrent(sim)

\* C15 for runOneIteration alone
C15_StepRecordsUpdatedState ==
    pc = "stepping" => LastEntryIsCurrent(sim)

\* C16: from the end of loadFromJson on the unaccounted ion amount never
\* changes, whatever run and runOneIteration do to the concentrations, the
\* volume and the charge; and it is the value updateVolume last worked
\* with and the one updateCharge's result contains.
C16_UnaccountedConstant ==
    /\ [][(pc \in Loaded) =>
            (sim'.unaccountedIonAmount = sim.unaccountedIonAmount)]_vars
    /\ []((pc \in Loaded /\ sim.lastVolume.ran) =>
            sim.lastVolume.unaccountedIonAmount = sim.unaccountedIonAmount)
    /\ []((pc = "completed" /\ iterNum > 1) =>
            sim.vesicle.charge = UpdateCharge(sim).vesicle.charge)

\* a completed run of a simulation whose unaccounted ion amount is not zero
\* and in which a concentration has left its initial value
C16_Witness ==
    /\ pc = "completed" /\ iterNum > 1
    /\ sim.lastVolume.ran
    /\ IsFinite(sim.unaccountedIonAmount)
    /\ ~EqNum(sim.unaccountedIonAmount, Zero)
    /\ \E n \in DOMAIN sim.species :
           /\ IsFinite(sim.species[n].vesicleConc)
           /\ ~EqNum(sim.species[n].vesicleConc, sim.species[n].initVesicleConc)

\* the passes of a loop of n passes after which a progress report is due
\* when reports come with every 1000th pass and with the last one
ReportsDue(n) == {i \in 1..n : i % 1000 = 0 \/ i = n}

\* C17: run calls the progress callback only every 1000th pass of its loop
\* and at the last pass, with integers from 0 to 100 that never decrease
\* and end with 100; without a callback, or with no pass to make, it calls
\* nothing.
C17_ProgressCadence ==
    (pc \in {"running", "completed", "run_failed"}) =>
        /\ \A i \in DOMAIN last.reported :
              /\ last.reported[i] \in 0..100
              /\ i > 1 => last.reported[i - 1] <= last.reported[i]
        /\ (~last.progressCallback \/ iterNum = 0) => last.reported = <<>>
        /\ Len(last.reported) <= Cardinality({i \in ReportsDue(iterNum) : i <= iter})
        /\ (pc = "completed" /\ last.progressCallback /\ iterNum > 0)
               => last.reported[Len(last.reported)] = 100

\* C17 without the cadence: the values, their order, the last one, and
\* the cases in which nothing is called
C17_ProgressValues ==
    (pc \in {"running", "completed", "run_failed"}) =>
        /\ \A i \in DOMAIN last.reported :
              /\ last.reported[i] \in 0..100
              /\ i > 1 => last.reported[i - 1] <= last.reported[i]
        /\ (~last.progressCallback \/ iterNum = 0) => last.reported = <<>>
        /\ (pc = "completed" /\ last.progressCallback /\ iterNum > 0)
               => last.reported[Len(last.reported)] = 100

\* area and capacitance are those of a sphere of the given volume
SphereConsistent(volume, area, capacitance, specificCapacitance) ==
    /\ area = SphereAreaOfVolume(volume)
    /\ capacitance = Mul(area, specificCapacitance)

MisWired(ch, species) ==
    \/ ch.primarySpecies = Null
    \/ /\ ch.primarySpecies # Null
       /\ species[ch.primarySpecies].displayName # ch.allowedPrimaryIon
    \/ /\ ch.secondarySpecies # Null
       /\ species[ch.secondarySpecies].displayName # ch.allowedSecondaryIon
    \/ ch.allowedSecondaryIon # "" /\ ch.secondarySpecies = Null

\* the channels connected to the species of the last computeTotalFlux, as
\* they were before the call
ConnectedBefore ==
    [i \in DOMAIN last.before.species[last.species].channels |->
        last.before.channels[last.before.species[last.species].channels[i]]]

\* computeTotalFlux returned the sum of computeFlux over the connected
\* channels
ReturnedSum ==
    /\ last.err = NoError
    /\ last.value = SumSeq([i \in DOMAIN ConnectedBefore |->
           ComputeFlux(ConnectedBefore[i], last.before.species,
                       last.params).value])

\* C19: computeTotalFlux fails when a channel connected to the species is
\* mis-wired, and returns the sum of computeFlux over the connected
\* channels otherwise.
C19_MisWiredChannelFails ==
    last.op = "computeTotalFlux" =>
        IF \E i \in DOMAIN ConnectedBefore :
               MisWired(ConnectedBefore[i], last.before.species)
        THEN last.err # NoError
        ELSE ReturnedSum

\* C19 for the channels that conduct: computeTotalFlux fails when a
\* connected channel of conductance other than 0 is mis-wired, and returns
\* the sum otherwise
C19_MisWiredConductingChannelFails ==
    last.op = "computeTotalFlux" =>
        IF \E i \in DOMAIN ConnectedBefore :
               /\ MisWired(ConnectedBefore[i], last.before.species)
               /\ ~EqNum(ConnectedBefore[i].conductance, Zero)
        THEN last.err # NoError
        ELSE ReturnedSum

\* the concentrations computeLogTerm reads for a species: the free hydrogen
\* of the snapshot for "h" when the channel uses it, the species' own
\* otherwise
ConcentrationsRead(ch, sp, params) ==
    IF ch.useFreeHydrogen /\ sp.displayName = "h"
    THEN [vesicle |-> params.vesicleHydrogenFree,
          exterior |-> params.exteriorHydrogenFree]
    ELSE [vesicle |-> sp.vesicleConc, exterior |-> sp.exteriorConc]

\* the ratio whose logarithm computeLogTerm is to return
LogTermRatio(ch, species, params) ==
    LET Primary(c) == PowInt(Div(c.exterior, c.vesicle), ch.primaryExponent)
        Secondary(c) == PowInt(Div(c.vesicle, c.exterior), ch.secondaryExponent)
    IN  IF ch.secondarySpecies = Null
        THEN Primary(ConcentrationsRead(ch, species[ch.primarySpecies], params))
        ELSE Mul(Primary(ConcentrationsRead(ch, species[ch.primarySpecies],
                                            params)),
                 Secondary(ConcentrationsRead(ch, species[ch.secondarySpecies],
                                              params)))

\* one of the concentrations computeLogTerm reads is 0 or below
SomeConcentrationNotPositive(ch, species, params) ==
    \E n \in {ch.primarySpecies, ch.secondarySpecies} \ {Null} :
        LET NotAbove(c) == Le(c.vesicle, Zero) \/ Le(c.exterior, Zero)
        IN  NotAbove(ConcentrationsRead(ch, species[n], params))

\* C20: computeLogTerm of a correctly wired channel does not fail; it
\* returns 0 when one of the concentrations it reads is 0 or below and the
\* logarithm of the ratio otherwise.
C20_LogTermGuarded ==
    (/\ last.op = "computeFlux"
     /\ last.logTerm.called
     /\ ~MisWired(last.before, sim.species))
    => /\ last.logTerm.err = NoError
       /\ last.logTerm.value =
              IF SomeConcentrationNotPositive(last.before, sim.species,
                                              last.params)
              THEN Zero
              ELSE Ln(LogTermRatio(last.before, sim.species, last.params))

\* C21: every species the simulation holds, from its construction on, has
\* a vesicle concentration above 0 and a vesicle amount of at least 0.
C21_SpeciesPositive ==
    \A n \in DOMAIN sim.species :
        /\ Gt(sim.species[n].vesicleConc, Zero)
        /\ Ge(sim.species[n].vesicleAmount, Zero)

\* C22: in the export of getHistoriesJson after a run, "simulation_time" is
\* as long as every other series, its i-th entry (from 0) is i times the
\* time step, and that is the simulation time at which the i-th entry of
\* the other series was recorded: the time run stamped with addHistory
\* next to the i-th updateHistories.
C22_ExportedTime ==
    last.op = "getHistoriesJson" =>
        /\ \A k \in DOMAIN last.result :
               Len(last.result[k]) = Len(last.result["simulation_time"])
        /\ \A i \in DOMAIN last.result["simulation_time"] :
               /\ last.result["simulation_time"][i] = Mul(I(i - 1), sim.timeStep)
               /\ last.result["simulation_time"][i]
                      = sim.histories.series["simulation_time"][i]

\* C23: updateSimulationState runs volume, concentrations, buffer capacity,
\* area, capacitance, charge, voltage, pH in this order, and no stage reads
\* a value that a later stage of the same pass overwrites: every value the
\* pass leaves is computed from what the pass does not write and from
\* values it has already written, so a second pass right after the first
\* one, with no amount changed in between, leaves what the first one left.
\* run ends with such a pass.
C23_StagesReadFinalValues ==
    (pc = "completed" /\ iterNum > 1) =>
        LET Same(r) ==
                /\ r.vesicle = sim.vesicle
                /\ r.species = sim.species
                /\ r.bufferCapacity = sim.bufferCapacity
        IN  Same(UpdateSimulationState(sim))

\* C23 for the stages after the first one: with the volume of the first
\* pass kept, the stages from the concentrations on leave in a second pass
\* what they left in the first one
C23_LaterStagesReadFinalValues ==
    (pc = "completed" /\ iterNum > 1) =>
        LET Same(r) ==
                /\ r.vesicle = sim.vesicle
                /\ r.species = sim.species
                /\ r.bufferCapacity = sim.bufferCapacity
        IN  Same(UpdatePH(UpdateVoltage(UpdateCharge(UpdateCapacitance(
                UpdateArea(UpdateBuffer(UpdateVesicleConcentrations(sim))))))))

\* the charge is (sum of elementaryCharge x amount + unaccountedIonAmount)
\* x F and the voltage is the charge divided by the capacitance
ChargeLaw(s) ==
    /\ s.vesicle.charge =
           Mul(Add(SumSeq(InOrder(s, [n \in DOMAIN s.species |->
                       Mul(s.species[n].vesicleAmount,
                           s.species[n].elementaryCharge)])),
                   s.unaccountedIonAmount),
               FARADAY_CONSTANT)
    /\ s.vesicle.voltage = Div(s.vesicle.charge, s.vesicle.capacitance)

\* the positions right after an updateSimulationState at a time other
\* than 0 (the time advances after the recompute): a second or later
\* runOneIteration, a second or later pass of run's loop, the end of a run
\* of two or more iterations
AfterLaterRecompute ==
    \/ pc = "stepping" /\ iter >= 2
    \/ pc = "running" /\ iter >= 2
    \/ pc = "completed" /\ iterNum > 1

\* the position right after the updateSimulationState at time 0 that ends
\* the first pass of the loop of a run of two or more iterations
AfterFirstRecompute == pc = "running" /\ iter = 1 /\ iterNum > 1

\* C24: after every updateSimulationState the charge and the voltage obey
\* the charge law, also after the one at simulation time 0 of the first
\* pass of run's loop.
C24_ChargeLaw ==
    (AfterLaterRecompute \/ AfterFirstRecompute) => ChargeLaw(sim)

\* C24 for the recomputes at a time other than 0
C24_ChargeLawAfterStart ==
    AfterLaterRecompute => ChargeLaw(sim)

\* the pH is 7 when hydrogen concentration x buffer capacity is 0 or below
\* and minus its decimal logarithm otherwise; without a species "h" it is
\* the initial pH, the only value it has ever had
PHLaw(s) ==
    LET Derived(freeHConc) ==
            IF Le(freeHConc, Zero) THEN DEFAULT_PH ELSE Neg(Log10(freeHConc))
    IN  IF "h" \in DOMAIN s.species
        THEN s.vesicle.pH =
                 Derived(Mul(s.species["h"].vesicleConc, s.bufferCapacity))
        ELSE s.vesicle.pH = s.vesicle.initPH

\* C25: after every updateSimulationState, the one at time 0 of the first
\* pass of run's loop included, the pH is the one derived from the hydrogen
\* species, or the unchanged one without a species "h".
C25_PHLaw ==
    (AfterLaterRecompute \/ AfterFirstRecompute) => PHLaw(sim)

\* C25 for the recomputes at a time other than 0
C25_PHLawAfterStart ==
    AfterLaterRecompute => PHLaw(sim)

\* C26: once a channel has a primary species, no step changes its primary
\* or its secondary species; in particular not a connectChannel of another
\* species with the same channel.
C26_WiredOnce ==
    [][(\A c \in DOMAIN sim.channels :
            (c \in DOMAIN sim'.channels /\ sim.channels[c].primarySpecies # Null)
            => /\ sim'.channels[c].primarySpecies = sim.channels[c].primarySpecies
               /\ sim'.channels[c].secondarySpecies
                      = sim.channels[c].secondarySpecies)]_vars

\* C27: computeFlux on a channel of conductance other than 0 that a
\* successful connectChannel has wired (only connectChannel gives a channel
\* its primary species) does not fail for a species that is not connected
\* or of another name than the allowed ion.
C27_AcceptedWiringUsable ==
    (/\ last.op = "computeFlux"
     /\ last.before.primarySpecies # Null
     /\ ~EqNum(last.before.conductance, Zero))
    => last.err \notin {"primary_not_connected", "primary_mismatch",
                        "secondary_not_connected", "secondary_mismatch"}

\* the amount of every species after an iteration is its amount before
\* plus its own total flux, computed on the snapshot with no amount yet
\* changed, times the time step, floored at 0 as every amount is; and a
\* species all of whose connected channels have conductance 0 keeps its
\* amount
OwnFluxAdded(before, snapshot, after) ==
    \A n \in DOMAIN before.species :
        LET Floored(x) == IF Lt(x, Zero) THEN Zero ELSE x
        IN  /\ after.species[n].vesicleAmount =
                   Floored(Add(before.species[n].vesicleAmount,
                       Mul(ComputeTotalFlux(snapshot.species, snapshot.channels,
                               n, GetFluxCalculationParameters(snapshot)).value,
                           before.timeStep)))
            /\ (\A i \in DOMAIN before.species[n].channels :
                    EqNum(before.channels[before.species[n].channels[i]].conductance,
                          Zero))
               => after.species[n].vesicleAmount = before.species[n].vesicleAmount

\* C28: in an iteration of runOneIteration and of run every species' total
\* flux is computed on one snapshot, that of the state before any amount
\* changes (for run: after the recompute that begins the pass), and
\* updateIonAmounts adds to every species its own flux times the time step;
\* a species without a conducting channel keeps its amount.
C28_OwnFluxAdded ==
    [][/\ (pc \in {"configured", "stepping"} /\ pc' = "stepping")
              => OwnFluxAdded(sim, sim, sim')
       /\ (pc = "running" /\ pc' = "running")
              => OwnFluxAdded(sim, UpdateSimulationState(sim), sim')]_vars

\* after the first pass of the loop of a run with two species, the amount
\* of one has changed and the amount of the other has not
C28_Witness ==
    /\ pc = "running" /\ iter = 1
    /\ \E n, m \in DOMAIN sim.species :
           /\ n # m
           /\ IsFinite(sim.species[n].vesicleAmount)
           /\ sim.species[n].vesicleAmount # last.from.species[n].vesicleAmount
           /\ sim.species[m].vesicleAmount = last.from.species[m].vesicleAmount

\* the last entry of the series of a vesicle field is the vesicle's value
LastVesicleEntryIs(s, key, value) ==
    /\ key \in DOMAIN s.histories.series
    /\ Len(s.histories.series[key]) > 0
    /\ s.histories.series[key][Len(s.histories.series[key])] = value

\* C29: when run has returned, whatever the number of iterations, the last
\* recorded entry of the vesicle's charge, voltage, pH, volume, area and
\* capacitance is the final value of that field of the vesicle.
C29_LastEntryIsFinalValue ==
    pc = "completed" =>
        /\ LastVesicleEntryIs(sim, "Vesicle_charge", sim.vesicle.charge)
        /\ LastVesicleEntryIs(sim, "Vesicle_voltage", sim.vesicle.voltage)
        /\ LastVesicleEntryIs(sim, "Vesicle_pH", sim.vesicle.pH)
        /\ LastVesicleEntryIs(sim, "Vesicle_volume", sim.vesicle.volume)
        /\ LastVesicleEntryIs(sim, "Vesicle_area", sim.vesicle.area)
        /\ LastVesicleEntryIs(sim, "Vesicle_capacitance", sim.vesicle.capacitance)

\* the same for the runs of another number of iterations than one
C29_LastEntryIsFinalValueOtherRuns ==
    (pc = "completed" /\ iterNum # 1) =>
        /\ LastVesicleEntryIs(sim, "Vesicle_charge", sim.vesicle.charge)
        /\ LastVesicleEntryIs(sim, "Vesicle_voltage", sim.vesicle.voltage)
        /\ LastVesicleEntryIs(sim, "Vesicle_pH", sim.vesicle.pH)
        /\ LastVesicleEntryIs(sim, "Vesicle_volume", sim.vesicle.volume)
        /\ LastVesicleEntryIs(sim, "Vesicle_area", sim.vesicle.area)
        /\ LastVesicleEntryIs(sim, "Vesicle_capacitance", sim.vesicle.capacitance)

\* what loadFromJson configures and the iterations only read
ConfiguredConstants(s) ==
    [ exteriorPH |-> s.exterior.pH,
      species |-> [n \in DOMAIN s.species |->
                      [ exteriorConc |-> s.species[n].exteriorConc,
                        initVesicleConc |-> s.species[n].initVesicleConc,
                        elementaryCharge |-> s.species[n].elementaryCharge,
                        channels |-> s.species[n].channels ]],
      channels |-> [c \in DOMAIN s.channels |->
                      [s.channels[c] EXCEPT !.flux = Zero,
                                            !.nernstPotential = Zero,
                                            !.pHDependence = One,
                                            !.voltageDependence = One,
                                            !.timeDependence = One]],
      vesicle |-> [ initVolume |-> s.vesicle.initVolume,
                    initCharge |-> s.vesicle.initCharge,
                    initVoltage |-> s.vesicle.initVoltage,
                    initPH |-> s.vesicle.initPH ],
      initBufferCapacity |-> s.initBufferCapacity,
      timeStep |-> s.timeStep,
      totalTime |-> s.totalTime ]

\* C30: no step of run or of runOneIteration, failed ones included, changes
\* the exterior pH, a species' exterior concentration, initial vesicle
\* concentration, elementary charge or list of connected channels, a
\* channel's parameters or wiring, the vesicle's initial volume, charge,
\* voltage or pH, the initial buffer capacity, the time step or the total
\* time.
C30_ConstantsKept ==
    [][(pc \in {"configured", "running", "stepping"}
        /\ pc' \in {"running", "completed", "run_failed", "stepping", "step_failed"})
          => ConfiguredConstants(sim') = ConfiguredConstants(sim)]_vars

\* a run of two or more iterations has completed and has changed an amount
C30_Witness ==
    /\ pc = "completed" /\ iterNum >= 2
    /\ \E n \in DOMAIN sim.species :
           sim.species[n].vesicleAmount # last.from.species[n].vesicleAmount
    /\ ConfiguredConstants(sim) = ConfiguredConstants(last.from)
====
